---- MODULE Spec2Model ----
(***************************************************************************)
(* A model of lib/square.js, the [square] build engine: the middleware     *)
(* pipeline (use / forEach), the manifest parser (parse), the directive    *)
(* resolver (directive), the per-extension reducer (reduce), template,     *)
(* tag and its cache, write, and build.                                    *)
(*                                                                         *)
(* Each part of the engine has its own specification over the shared       *)
(* variables (SpecForEach, SpecParse, SpecDirective, SpecReduce, SpecScan, *)
(* SpecTemplate, SpecWrite, SpecBuild, SpecImport, SpecList, SpecApi,      *)
(* SpecStages, SpecCompile); a specification leaves the variables of the   *)
(* other parts at their constructor values.                                *)
(***************************************************************************)
EXTENDS Integers, Sequences, FiniteSets, TLC

VARIABLES
  \* ---- Square instance (constructor, lines 76-130) ----
  middleware,     \* this.middleware: the registered layers, in order
  cli,            \* this.cli
  listener,       \* TRUE when an 'error' listener is registered on the emitter
  errors,         \* the messages handed to critical(), in order
  exited,         \* TRUE once critical() has called process.exit(1)
  \* ---- one forEach(collection, cb) call ----
  fePc,           \* "idle" | "iterate" | "unwind" | "loop"
  collection,     \* forEach's `collection` variable
  backup,         \* forEach's `backup` variable
  completed,      \* async.forEachSeries' `completed` counter
  live,           \* FALSE once forEachSeries replaced its callback by a no-op
  feStack,        \* layers that are still on the JS stack after calling yep
  fePending,      \* asynchronous layers that were invoked and did not call yep yet
  invoked,        \* how often iterate() called each layer
  continued,      \* how often each layer itself called its continuation
  failed,         \* the layers whose error reached done(err)
  cbLog,          \* the (err, collection) pairs handed to forEach's cb, in order
  \* ---- manifest and package (parse / read) ----
  manifest,       \* the manifest handed to parse: its bundle declarations
  package,        \* this.package
  parseRet,       \* what the last parse() call did: its return value or "threw"
  preprocess,     \* the compilers of lib/pre-process: their extensions arrays
  \* ---- one top-level directive(data, extension, reference) call ----
  fs,             \* the files on disk: the directive lines of each file
  dPc,            \* "idle" | "scan" | "done" | "threw" | "exit"
  dFile,          \* the bundle file whose content is the `data` argument
  dStack,         \* the active directive() calls, innermost first
  seen,           \* the `seen` array of the call
  dOut,           \* the text returned by the top-level call
  dCycles,        \* the targets reported as recursive, with the active chain
  \* ---- one reduce(platform, extensions, fn) call ----
  rPc,            \* "idle" | "next" | "compiling" | "done"
  rExtensions,    \* the `extensions` argument
  rIndex,         \* the position in the tree of the bundle async.reduce is at
  memo,           \* async.reduce's memo: output extension -> content
  count,          \* the `count` object: source extension -> files left
  totals,         \* the `totals` snapshot of count
  details,        \* the details handed to preprocess, with the bundle's key
  rResult,        \* the (err, result) handed to fn, "none" before
  rStarted,       \* the keys of the bundles handed to preprocess, in order
  rAppended,      \* the keys of the bundles whose fragment was appended, in order
  \* ---- the line scan of one directive(data, extension) call ----
  sPc,            \* "scan" | "done"
  dExtension,     \* the `extension` argument
  lines,          \* data.split(/\n|\r/g), and what insert returns for a directive
  sIndex,         \* the line that scan is called with next
  assemble,       \* the `assemble` array
  dText,          \* the text returned by the call
  \* ---- one template(str, data) call ----
  tPc,            \* "idle" | "done"
  str,            \* the template: its literal parts and {placeholders}
  data,           \* the data object
  tOut,           \* the string returned, or that the call threw
  \* ---- the cache and the tags (this.cache, tag) ----
  cache,          \* this.cache: whether it runs, and who memoized each entry
  tagLog,         \* the cache lookups of the tag() calls, in order
  \* ---- one write(collection, fn) call ----
  stdout,         \* this.stdout
  env,            \* this.env
  writable,       \* this.writable
  license,        \* TRUE when configuration.license holds a header
  storages,       \* this.storages: the number of registered engines
  wPc,            \* "idle" | "tick" | "parallel" | "done" | "threw" | "exit"
  wCollection,    \* the collection handed to write
  wStorage,       \* the state of each storage engine's task
  wCompleted,     \* async.parallel's `completed` counter
  wLive,          \* FALSE once async.parallel replaced its callback by a no-op
  wLog,           \* the calls of write's fn, in order
  \* ---- the build(platform, extensions, fn) calls ----
  bPc,            \* of each build: "idle" | "reduce" | "pipeline" | "writing" |
                  \* "done" | "stuck" | "threw"
  bFn,            \* of each build: TRUE when a callback was supplied
  bCollections,   \* of each build: the number of collections of reduced()
  bDoneBefore,    \* of each build: the builds that were done when it began
  bResult,        \* of each build: the err that done() received, "none" before
  \* ---- one parse(data, true) call ----
  poRet,          \* "none" | "struct" | "false" | "threw" | "exit"
  poBefore,       \* this.package when the call was made
  \* ---- one parse(data) call for a manifest whose bundle is a list ----
  lFiles,         \* struct.bundle as read: the list of file paths
  lRet,           \* "none" | "true" | "threw"
  lBundle,        \* struct.bundle after lines 699-703: path -> weight, or undefined
  \* ---- use, plugin and read called on the engine ----
  paths,          \* this.paths: the directories that plugin() searches, in order
  nCalls,         \* the number of calls made
  apiCall,        \* the last call: its operation and its argument
  apiRet,         \* what it returned: "none" | "true" | "false" | "threw" | "exit"
  useLog,         \* the arguments of all calls of use(), in order
  inits,          \* the plugins that were initialised: <<directory, name>>, in order
  \* ---- the pipelines and the writes of one build (async.map) ----
  gPc,            \* "idle" | "built": reduced() has made the collections
  gN,             \* the number of collections
  gFn,            \* TRUE when build was given a callback (args.function)
  pPending,       \* the collections whose pipeline has not called back
  pFailed,        \* the collections whose pipeline called back with an error
  pMap,           \* async.map over the pipelines: completed, and callback not yet a no-op
  gHanded,        \* the collections that were handed to write
  gWriting,       \* the collections whose write has not called back
  gMap,           \* async.map over the writes: completed, and callback not yet a no-op
  gEvents         \* what done() did, in order: critical, callback, 'build'

feVars == <<fePc, collection, backup, completed, live, feStack, fePending,
            invoked, continued, failed, cbLog>>
engineVars == <<cli, listener, errors, exited>>
parseVars == <<manifest, package, parseRet, preprocess>>
dVars == <<fs, dPc, dFile, dStack, seen, dOut, dCycles>>
rVars == <<rPc, rExtensions, rIndex, memo, count, totals, details, rResult,
          rStarted, rAppended>>

sVars == <<sPc, dExtension, lines, sIndex, assemble, dText>>
\* The variables of the parts that follow reduce, and all those before.
tVars == <<tPc, str, data, tOut>>
cVars == <<cache, tagLog>>
wVars == <<stdout, env, writable, license, storages, wPc, wCollection, wStorage,
           wCompleted, wLive, wLog>>
bVars == <<bPc, bFn, bCollections, bDoneBefore, bResult>>
poVars == <<poRet, poBefore>>
lVars == <<lFiles, lRet, lBundle>>
aVars == <<paths, nCalls, apiCall, apiRet, useLog, inits>>
\* The variables of the parts that follow the parse-only mode.
gVars == <<gPc, gN, gFn, pPending, pFailed, pMap, gHanded, gWriting, gMap, gEvents>>
lastVars == <<lVars, aVars, gVars>>
restVars == <<sVars, tVars, cVars, wVars, bVars, poVars, lastVars>>
coreVars == <<middleware, engineVars, feVars, parseVars, dVars, rVars>>

\* ------------------------------------------------------------------------
\* Bounds of the model.
\* ------------------------------------------------------------------------
MaxStages == 3
MaxBundles == 3
MaxWeight == 3
MaxLines == 4
MaxScan == 3
MaxParts == 2
MaxStorages == 2
MaxBuilds == 2
MaxList == 4
MaxCalls == 3
MaxCollections == 2

\* ------------------------------------------------------------------------
\* Values.
\* ------------------------------------------------------------------------
\* A collection is modelled by its content: the sequence of the marks that
\* the layers appended to it.  `def` is FALSE for JavaScript's undefined.
Coll(c) == [def |-> TRUE, content |-> c]
Undefined == [def |-> FALSE, content |-> <<>>]
\* The content "C" the pipeline is started with.
InputContent == <<0>>
\* What a layer hands to its continuation: a replacement or nothing.
Result(c) == [has |-> TRUE, val |-> c]
NoResult == [has |-> FALSE, val |-> Undefined]
\* No error (undefined); an error is identified by the layer that raised it.
NoErr == 0

\* The behaviours of a middleware layer:
\*   replace  calls yep(undefined, result), result = collection + own mark
\*   noop     calls yep() with no result
\*   error    calls yep(err)
\*   throw    throws before it calls yep
\*   late     calls yep(undefined, result) and then throws synchronously
\* A layer is asynchronous when it calls yep from a later turn of the event
\* loop; a throw is caught by forEach's try only in the invoking turn.
Kinds == {"replace", "noop", "error", "throw", "late"}
Names == {"f", "g"}
Layers == { l \in [name : Names, kind : Kinds, async : BOOLEAN] :
              l.async => l.kind \in {"replace", "noop", "error"} }
Replaces(l) == l.kind \in {"replace", "late"}
Indices == 1..(MaxStages + 1)

\* ------------------------------------------------------------------------
\* use / has (lines 254-265, 297-312)
\* ------------------------------------------------------------------------
\* has() that compares the names only.
hasByName(layer) == \E i \in 1..Len(middleware) : middleware[i].name = layer.name

\* has(layer): some registered layer has the same body and the same name.
has(layer) == \E i \in 1..Len(middleware) :
                 /\ middleware[i].kind = layer.kind
                 /\ middleware[i].async = layer.async
                 /\ middleware[i].name = layer.name

\* use(layer) for a function: refused when has(layer), else pushed.
use(layer) ==
  /\ fePc = "idle"
  /\ Len(middleware) < MaxStages
  /\ ~has(layer)
  /\ middleware' = Append(middleware, layer)
  /\ UNCHANGED restVars
  /\ UNCHANGED <<feVars, engineVars, parseVars, dVars, rVars>>

\* ------------------------------------------------------------------------
\* forEach (lines 371-410) over async.forEachSeries
\* ------------------------------------------------------------------------
\* yep's assignments, with the guard dropped (a layer that returns nothing
\* then overwrites the working value by undefined).
yepUnguarded(result, coll, bak) ==
  [collection |-> result.val, backup |-> result.val]

\* yep(err, result), lines 386-389: the assignments to collection and backup.
yep(result, coll, bak) ==
  IF result.has THEN [collection |-> result.val, backup |-> result.val]
                ELSE [collection |-> bak, backup |-> bak]

\* The result a layer of this kind computes from the collection it is given.
layerResult(i, coll) ==
  IF Replaces(middleware[i])
    THEN Result(Coll(Append(coll.content, i)))
    ELSE NoResult

\* Where control goes when the running call returns: to the catch block of
\* a layer that is still on the stack, or back to the event loop.
return(stack) == IF stack /= <<>> THEN "unwind" ELSE "loop"

\* forEachSeries' per-item callback with the error test dropped: the series
\* goes on after a failed item.
doneNoShortCircuit(err, coll, stack) ==
  LET n == completed + 1 IN
  IF n = Len(middleware)
    THEN [completed |-> n, live |-> live,
          cbLog |-> IF live THEN Append(cbLog, [err |-> NoErr, collection |-> coll])
                            ELSE cbLog,
          pc |-> return(stack)]
    ELSE [completed |-> n, live |-> live, cbLog |-> cbLog, pc |-> "iterate"]

\* done(err): forEachSeries' per-item callback, followed by finished (lines
\* 406-408) when the series ends.  On an error the final callback is called
\* and replaced by a no-op; otherwise completed is incremented and either
\* the final callback is called or the next item is iterated.
done(err, coll, stack) ==
  IF err /= NoErr
    THEN [completed |-> completed, live |-> FALSE,
          cbLog |-> IF live THEN Append(cbLog, [err |-> err, collection |-> coll])
                            ELSE cbLog,
          pc |-> return(stack)]
    ELSE LET n == completed + 1 IN
         IF n = Len(middleware)
           THEN [completed |-> n, live |-> live,
                 cbLog |-> IF live
                             THEN Append(cbLog, [err |-> NoErr, collection |-> coll])
                             ELSE cbLog,
                 pc |-> return(stack)]
           ELSE [completed |-> n, live |-> live, cbLog |-> cbLog, pc |-> "iterate"]

\* A layer calls the continuation: yep, then done.
Continue(i, err, result, stack) ==
  LET y == yep(result, collection, backup)
      d == done(err, y.collection, stack)
  IN /\ collection' = y.collection
     /\ backup' = y.backup
     /\ completed' = d.completed
     /\ live' = d.live
     /\ cbLog' = d.cbLog
     /\ fePc' = d.pc
     /\ feStack' = stack
     /\ failed' = IF err /= NoErr THEN failed \cup {i} ELSE failed

\* forEachSeries with the wait dropped: the next item is started as soon
\* as an asynchronous layer has returned (async.forEach's behaviour).
awaitNothing(stack) ==
  IF completed + 1 < Len(middleware)
    THEN [completed |-> completed + 1, pc |-> "iterate"]
    ELSE [completed |-> completed, pc |-> return(stack)]

\* An asynchronous layer returned without calling yep: forEachSeries does
\* nothing until the layer's continuation is called.
await(stack) == [completed |-> completed, pc |-> return(stack)]

\* forEach(collection, cb): forEachSeries calls back at once for an empty
\* list and iterates the first layer otherwise.
forEach ==
  /\ fePc = "idle"
  /\ IF Len(middleware) = 0
       THEN /\ cbLog' = Append(cbLog, [err |-> NoErr, collection |-> collection])
            /\ fePc' = "loop"
       ELSE /\ cbLog' = cbLog
            /\ fePc' = "iterate"
  /\ UNCHANGED restVars
  /\ UNCHANGED <<middleware, collection, backup, completed, live, feStack,
                 fePending, invoked, continued, failed, engineVars, parseVars,
                 dVars, rVars>>

\* iterate (lines 385-398): layer.call(self, collection, yep) inside try.
iterate ==
  /\ fePc = "iterate"
  /\ completed < Len(middleware)
  /\ LET i == completed + 1
         l == middleware[i]
     IN /\ invoked' = [invoked EXCEPT ![i] = @ + 1]
        /\ IF l.async
             THEN \* the layer returns; it calls yep in a later turn
                  /\ fePending' = fePending \cup {i}
                  /\ fePc' = await(feStack).pc
                  /\ completed' = await(feStack).completed
                  /\ UNCHANGED <<collection, backup, live, feStack,
                                 continued, failed, cbLog>>
             ELSE /\ fePending' = fePending
                  /\ CASE l.kind \in {"replace", "noop"} ->
                            /\ Continue(i, NoErr, layerResult(i, collection), feStack)
                            /\ continued' = [continued EXCEPT ![i] = @ + 1]
                       [] l.kind = "late" ->
                            /\ Continue(i, NoErr, layerResult(i, collection),
                                        <<i>> \o feStack)
                            /\ continued' = [continued EXCEPT ![i] = @ + 1]
                       [] l.kind = "error" ->
                            /\ Continue(i, i, NoResult, feStack)
                            /\ continued' = [continued EXCEPT ![i] = @ + 1]
                       [] l.kind = "throw" ->
                            \* catch (e) { yep(e); }
                            /\ Continue(i, i, NoResult, feStack)
                            /\ continued' = continued
  /\ UNCHANGED restVars
  /\ UNCHANGED <<middleware, engineVars, parseVars, dVars, rVars>>

\* A layer that already called yep throws while it is still on the stack:
\* catch (e) { yep(e); }, line 397.
unwind ==
  /\ fePc = "unwind"
  /\ feStack /= <<>>
  /\ Continue(Head(feStack), Head(feStack), NoResult, Tail(feStack))
  /\ UNCHANGED restVars
  /\ UNCHANGED <<middleware, fePending, invoked, continued, engineVars, parseVars,
                 dVars, rVars>>

\* An asynchronous layer calls yep from the event loop.
complete(i) ==
  /\ fePc = "loop"
  /\ i \in fePending
  /\ fePending' = fePending \ {i}
  /\ continued' = [continued EXCEPT ![i] = @ + 1]
  /\ IF middleware[i].kind = "error"
       THEN Continue(i, i, NoResult, feStack)
       ELSE Continue(i, NoErr, layerResult(i, collection), feStack)
  /\ UNCHANGED restVars
  /\ UNCHANGED <<middleware, invoked, engineVars, parseVars, dVars, rVars>>

\* ------------------------------------------------------------------------
\* critical (lines 1002-1034)
\* ------------------------------------------------------------------------
\* critical() that ends the process whatever this.cli is.
criticalExits == "exit"

\* What critical() does to its caller.  In CLI mode the process exits; in
\* library mode an 'error' event is emitted and false is returned, and
\* EventEmitter#emit throws the error when no 'error' listener is registered.
critical ==
  IF cli THEN "exit"
  ELSE IF listener THEN "false"
  ELSE "throw"

\* ------------------------------------------------------------------------
\* parse / read / createMeta (lines 612-803, 813-846, 881-969)
\* ------------------------------------------------------------------------
\* Extensions of bundle files.  "styl" has a compiler in lib/pre-process,
\* "js" and "css" have none.  "undefined" is the output that createMeta
\* gives when the compiler's extensions array is exhausted.
SourceExts == {"js", "css", "styl"}
OutputExts == {"js", "css", "undefined"}

\* A bundle declaration of the manifest: weight 0 stands for no weight key.
\* The key of a bundle is its position in the manifest's iteration order.
\* `content` is the end of the text of the bundle file, which follows a
\* body that is modelled by the key of the bundle.
Decls(weights, exts, contents) ==
  [weight : weights, exists : BOOLEAN, extension : exts, content : contents]

\* The package of a fresh engine, and of read() before it fills it:
\* this.package = {}.
EmptyPackage ==
  [configuration |-> FALSE, bundle |-> <<>>, meta |-> FALSE, tree |-> <<>>,
   files |-> <<>>, extensions |-> [e \in OutputExts |-> <<>>]]

\* helper.weight(amount, count): an explicit weight is kept, the default
\* weight is the number of bundles that remain to be parsed.
weight(amount, size) == IF amount = 1 THEN size ELSE amount

\* createMeta, lines 819-831: the output extension of a bundle, and the
\* compilers afterwards (compiler.extensions.shift() removes the first
\* declared extension from the compiler).
createMeta(decl, pre) ==
  IF decl.extension \in DOMAIN pre
    THEN LET exts == pre[decl.extension]
         IN IF exts = <<>>
              THEN [output |-> "undefined", pre |-> pre]
              ELSE [output |-> Head(exts),
                    pre |-> [pre EXCEPT ![decl.extension] = Tail(exts)]]
    ELSE [output |-> decl.extension, pre |-> pre]

\* The comparator mistaken for ascending order.
compareAscending(a, b) == a.weight - b.weight

\* The comparator of tree.sort, lines 784-786.
compare(a, b) == b.weight - a.weight

\* Array.prototype.sort is stable: x is inserted before the first element
\* that the comparator places after it.
InsertSorted(s, x) ==
  LET after == { p \in 1..Len(s) : compare(s[p], x) > 0 }
      at == IF after = {} THEN Len(s) + 1
            ELSE CHOOSE p \in after : \A q \in after : p <= q
  IN SubSeq(s, 1, at - 1) \o <<x>> \o SubSeq(s, at, Len(s))

RECURSIVE SortFrom(_, _)
SortFrom(s, acc) ==
  IF s = <<>> THEN acc ELSE SortFrom(Tail(s), InsertSorted(acc, Head(s)))

\* The tree left in the order in which the bundles were pushed.
sortSkipped(tree) == tree

\* tree = tree.sort(function sort(a, b) { return b.weight - a.weight; })
sort(tree) == SortFrom(tree, <<>>)

\* The callback of _.forEach(struct.bundle, ...), lines 722-780, applied to
\* the bundles from position i on.  acc carries tree, files, extensions,
\* size, the compilers and how the loop ended: "ok", or the outcome of
\* critical() for a bundle file that does not exist ("false" ends the loop:
\* _.forEach stops when its callback returns false).
RECURSIVE parseBundles(_, _, _)
parseBundles(bundles, i, acc) ==
  IF i > Len(bundles) THEN acc
  ELSE LET decl == bundles[i]
           meta == createMeta(decl, acc.pre)
       IN IF ~decl.exists
            THEN [acc EXCEPT !.pre = meta.pre, !.end = critical,
                             !.errors = Append(@, "bundle file does not exist")]
            ELSE LET bundle == [key |-> i,
                                weight |-> weight(IF decl.weight = 0 THEN 1
                                                  ELSE decl.weight, acc.size),
                                extension |-> decl.extension,
                                output |-> meta.output,
                                compiler |-> decl.extension \in DOMAIN acc.pre,
                                content |-> <<ToString(i)>> \o decl.content]
                 IN parseBundles(bundles, i + 1,
                      [acc EXCEPT !.pre = meta.pre,
                                  !.files = Append(@, i),
                                  !.size = @ - 1,
                                  !.extensions[meta.output] = Append(@, i),
                                  !.tree = Append(@, bundle)])

\* parse(data), not parseOnly, for a manifest without imports.
parse ==
  /\ fePc = "idle"
  /\ rPc = "idle"
  /\ ~exited
  /\ IF ~manifest.exists
       THEN \* read, lines 894 and 913-916, and its catch block, line 962
            /\ package' = EmptyPackage
            /\ errors' = IF critical = "throw"
                           THEN <<"manifest does not exist", "failed to parse the bundle">>
                           ELSE <<"manifest does not exist">>
            /\ parseRet' = IF critical = "throw" THEN "threw" ELSE critical
            /\ exited' = (critical = "exit")
            /\ preprocess' = preprocess
       ELSE LET read == [EmptyPackage EXCEPT !.configuration = TRUE,
                                             !.bundle = manifest.bundles]
                loop == parseBundles(manifest.bundles, 1,
                          [tree |-> <<>>, files |-> <<>>,
                           extensions |-> [e \in OutputExts |-> <<>>],
                           size |-> Len(manifest.bundles),
                           pre |-> preprocess, end |-> "ok", errors |-> <<>>])
            IN /\ errors' = loop.errors
               /\ preprocess' = loop.pre
               /\ exited' = (loop.end = "exit")
               /\ IF loop.end \in {"exit", "throw"}
                    THEN /\ package' = read
                         /\ parseRet' = IF loop.end = "throw" THEN "threw" ELSE "exit"
                    ELSE /\ package' = [read EXCEPT !.meta = TRUE,
                                                    !.tree = sort(loop.tree),
                                                    !.files = loop.files,
                                                    !.extensions = loop.extensions]
                         /\ parseRet' = "true"
  /\ UNCHANGED restVars
  /\ UNCHANGED <<middleware, cli, listener, manifest, feVars, dVars, rVars>>

\* The manifest file is written: one more bundle is declared in it.
declare(decl) ==
  /\ parseRet = "none"
  /\ manifest.exists
  /\ Len(manifest.bundles) < MaxBundles
  /\ manifest' = [manifest EXCEPT !.bundles = Append(@, decl)]
  /\ UNCHANGED restVars
  /\ UNCHANGED <<middleware, engineVars, feVars, package, parseRet, preprocess, dVars,
                 rVars>>

\* square.on('error', listener)
on ==
  /\ parseRet = "none"
  /\ dPc = "idle"
  /\ ~listener
  /\ listener' = TRUE
  /\ UNCHANGED restVars
  /\ UNCHANGED <<middleware, cli, errors, exited, feVars, parseVars, dVars, rVars>>

InitParseVars ==
  /\ manifest = [exists |-> TRUE, bundles |-> <<>>]
  /\ package = EmptyPackage
  /\ parseRet = "none"
  /\ preprocess = [e \in {"styl"} |-> <<"css">>]


\* ------------------------------------------------------------------------
\* directive (lines 1094-1184)
\* ------------------------------------------------------------------------
\* The files that exist, and the paths a directive can name.  A file is
\* modelled by its directive lines, each naming a target; "missing" is a
\* path at which no file exists.
Files == {"a", "b", "c"}
Targets == Files \cup {"missing"}

\* The number of directive lines in all files.
RECURSIVE TotalLines(_)
TotalLines(F) ==
  IF F = {} THEN 0
  ELSE LET f == CHOOSE x \in F : TRUE IN Len(fs[f]) + TotalLines(F \ {f})

\* A directive line naming `target` is written at the end of `file`.
write(file, target) ==
  /\ dPc = "idle"
  /\ TotalLines(Files) < MaxLines
  /\ fs' = [fs EXCEPT ![file] = Append(@, target)]
  /\ UNCHANGED restVars
  /\ UNCHANGED <<middleware, engineVars, feVars, parseVars, dPc, dFile, dStack,
                 seen, dOut, dCycles, rVars>>

\* The files of the active calls, outermost first.
Chain(stack) == [i \in 1..Len(stack) |-> stack[Len(stack) + 1 - i].file]

\* directive(data, extension, reference) called by preprocess (line 485)
\* with the content of a bundle file: seen = seen || [].
directive(file) ==
  /\ dPc = "idle"
  /\ ~exited
  /\ dPc' = "scan"
  /\ dFile' = file
  /\ dStack' = << [file |-> file, line |-> 1, out |-> <<>>] >>
  /\ seen' = <<>>
  /\ UNCHANGED restVars
  /\ UNCHANGED <<middleware, engineVars, feVars, parseVars, fs, dOut, dCycles, rVars>>

\* The value that replaces a directive line for which critical() returned
\* false: String#replace converts the returned false to the text "false".
placeholder == <<"false">>

\* seen.push(location), line 1125: the one array of the top-level call.
seenAfter(target, stack) == Append(seen, target)

\* ~seen.indexOf(location), line 1119.
isSeen(target) == \E i \in 1..Len(seen) : seen[i] = target

\* critical() called by insert: what becomes of the running call.
failInsert(message, top) ==
  /\ errors' = Append(errors, message)
  /\ CASE critical = "exit" ->
            /\ exited' = TRUE
            /\ dPc' = "exit"
            /\ dStack' = <<>>
       [] critical = "throw" ->
            /\ exited' = exited
            /\ dPc' = "threw"
            /\ dStack' = <<>>
       [] critical = "false" ->
            /\ exited' = exited
            /\ dPc' = dPc
            /\ dStack' = << [top EXCEPT !.line = @ + 1,
                                        !.out = @ \o placeholder] >>
                         \o Tail(dStack)

\* scan (lines 1158-1181) of a directive line, and insert (lines 1111-1133).
scan ==
  /\ dPc = "scan"
  /\ dStack /= <<>>
  /\ LET top == Head(dStack)
     IN /\ top.line <= Len(fs[top.file])
        /\ LET target == fs[top.file][top.line]
           IN IF target \notin Files
                THEN /\ failInsert("statement does not exist", top)
                     /\ UNCHANGED <<seen, dCycles>>
                ELSE IF isSeen(target)
                  THEN /\ failInsert("recursive import statement detected", top)
                       /\ dCycles' = Append(dCycles, [target |-> target,
                                                      chain |-> Chain(dStack)])
                       /\ seen' = seen
                  ELSE /\ seen' = seenAfter(target, dStack)
                       /\ dStack' = << [file |-> target, line |-> 1,
                                        out |-> <<target>>] >> \o dStack
                       /\ UNCHANGED <<errors, exited, dPc, dCycles>>
  /\ UNCHANGED restVars
  /\ UNCHANGED <<middleware, cli, listener, feVars, parseVars, fs, dFile, dOut,
                 rVars>>

\* return assemble.join('\n').trim(), line 1183: the text replaces the
\* directive line of the calling scan, or is the result of the call.
join ==
  /\ dPc = "scan"
  /\ dStack /= <<>>
  /\ LET top == Head(dStack)
         rest == Tail(dStack)
     IN /\ top.line > Len(fs[top.file])
        /\ IF rest = <<>>
             THEN /\ dOut' = top.out
                  /\ dPc' = "done"
                  /\ dStack' = <<>>
             ELSE /\ dOut' = dOut
                  /\ dPc' = dPc
                  /\ dStack' = << [Head(rest) EXCEPT !.line = @ + 1,
                                                    !.out = @ \o top.out] >>
                               \o Tail(rest)
  /\ UNCHANGED restVars
  /\ UNCHANGED <<middleware, engineVars, feVars, parseVars, fs, dFile, seen,
                 dCycles, rVars>>

InitDirectiveVars ==
  /\ fs = [f \in Files |-> <<>>]
  /\ dPc = "idle"
  /\ dFile = "a"
  /\ dStack = <<>>
  /\ seen = <<>>
  /\ dOut = <<>>
  /\ dCycles = <<>>

\* ------------------------------------------------------------------------
\* reduce / preprocess / semicolon (lines 448-504, 514-572, 581-599)
\* ------------------------------------------------------------------------
\* Text is a sequence of characters; these are the white space characters
\* that String#trim removes.
White == {"\n", " "}

RECURSIVE TrimLeft(_)
TrimLeft(t) ==
  IF t /= <<>> /\ Head(t) \in White THEN TrimLeft(Tail(t)) ELSE t

RECURSIVE TrimRight(_)
TrimRight(t) ==
  IF t /= <<>> /\ t[Len(t)] \in White
    THEN TrimRight(SubSeq(t, 1, Len(t) - 1))
    ELSE t

\* String#trim
trim(t) == TrimRight(TrimLeft(t))

\* semicolon(content), lines 581-599.  charAt(content.length - 1) is taken
\* of the trimmed content at the last index of the untrimmed content, and
\* is '' when the trimmed content is shorter.
semicolon(content) ==
  IF content = <<>> THEN <<>>
  ELSE LET trimmed == trim(content)
           char == IF Len(content) <= Len(trimmed) THEN trimmed[Len(content)]
                   ELSE ""
       IN IF char /= "" /\ char /= ";" /\ (char = ")" \/ char = "}")
            THEN content \o <<";">>
            ELSE content

\* The fragment placed in front of the memo.
concatReversed(text, content) == trim(content \o <<"\n">> \o text)

\* (memo[output] + '\n' + content).trim(), line 566
concat(text, content) == trim(text \o <<"\n">> \o content)

\* The test of line 551 made against the source extension of the bundle.
isRequestedBySource(bundle) == bundle.extension \in rExtensions

\* ~extensions.indexOf(output), line 551
isRequested(bundle) == bundle.output \in rExtensions

\* The text that preprocess hands on for a bundle without compiler: the
\* bundle's content after directive() trimmed it (line 1183).
preprocessed(bundle) == trim(bundle.content)

\* The text that preprocess hands on for a compiled bundle: the compiler's
\* output followed by commentWrap's comment, which ends with a newline
\* (lines 493-500, 1530).
compiled(bundle) == trim(bundle.content) \o <<"*/", "\n">>

\* The memo with the fragment of a bundle appended, lines 555-566.
appended(m, bundle, content) ==
  LET output == bundle.output
      before == IF m[output].has THEN m[output].text ELSE <<>>
      safe == IF output = "js" THEN semicolon(before) ELSE before
  IN [m EXCEPT ![output] = [has |-> TRUE, text |-> concat(safe, content)]]

\* The content of the collection that build's reduced() makes of one entry
\* of reduce's result, lines 1210-1224.
collectionContent(extension, content) ==
  IF extension = "js" THEN semicolon(content) ELSE content

EmptyMemo == [e \in OutputExts |-> [has |-> FALSE, text |-> <<>>]]

\* The number of files of package.meta.files with this source extension,
\* lines 522-529.
counter(extension) ==
  Cardinality({ i \in 1..Len(package.files) :
                  package.bundle[package.files[i]].extension = extension })

\* The index of the second bundle of an extension given to the first too.
indexAfterDecrement(total, left) == total - (left - 1)

\* details.index: total - count[extension]--, line 545.  The decrement is a
\* postfix one, so the index is computed from the count before it.
index(total, left) == total - left

\* async.reduce goes on to the next bundle of the tree, or calls fn with the
\* memo when there is none left.
advance(m) ==
  /\ memo' = m
  /\ IF rIndex = Len(package.tree)
       THEN /\ rPc' = "done"
            /\ rResult' = [err |-> FALSE, result |-> m]
            /\ rIndex' = rIndex
       ELSE /\ rPc' = "next"
            /\ rResult' = rResult
            /\ rIndex' = rIndex + 1

\* reduce(platform, extensions, fn), lines 514-535
reduce(extensions) ==
  /\ rPc = "idle"
  /\ ~exited
  /\ package.meta
  /\ rExtensions' = extensions
  /\ count' = [e \in SourceExts |-> counter(e)]
  /\ totals' = [e \in SourceExts |-> counter(e)]
  /\ details' = <<>>
  /\ memo' = EmptyMemo
  /\ rIndex' = 1
  /\ IF package.tree = <<>>
       THEN /\ rPc' = "done"
            /\ rResult' = [err |-> FALSE, result |-> EmptyMemo]
       ELSE /\ rPc' = "next"
            /\ rResult' = rResult
  /\ UNCHANGED restVars
  /\ UNCHANGED <<middleware, engineVars, feVars, parseVars, dVars, rStarted,
                 rAppended>>

\* The iterator of async.reduce, lines 537-557, and preprocess for a bundle
\* without compiler (line 488), whose callback runs at once.
reduceBundle ==
  /\ rPc = "next"
  /\ LET bundle == package.tree[rIndex]
     IN /\ count' = [count EXCEPT ![bundle.extension] = @ - 1]
        /\ IF ~isRequested(bundle)
             THEN /\ advance(memo)
                  /\ UNCHANGED <<rStarted, rAppended, details>>
             ELSE /\ rStarted' = Append(rStarted, bundle.key)
                  /\ details' = Append(details,
                       [key |-> bundle.key,
                        index |-> index(totals[bundle.extension],
                                        count[bundle.extension]),
                        count |-> totals[bundle.extension]])
                  /\ IF bundle.compiler
                       THEN /\ rPc' = "compiling"
                            /\ memo' = [memo EXCEPT ![bundle.output] =
                                          [has |-> TRUE, text |-> @.text]]
                            /\ UNCHANGED <<rIndex, rResult, rAppended>>
                       ELSE /\ advance(appended(
                                  [memo EXCEPT ![bundle.output] =
                                     [has |-> TRUE, text |-> @.text]],
                                  bundle, preprocessed(bundle)))
                            /\ rAppended' = Append(rAppended, bundle.key)
  /\ UNCHANGED restVars
  /\ UNCHANGED <<middleware, engineVars, feVars, parseVars, dVars, rExtensions,
                 totals>>

\* The compiler of the bundle calls back (lines 490-503), with an error or
\* with the compiled text, and preprocess' callback runs (lines 557-568).
compiling(err) ==
  /\ rPc = "compiling"
  /\ LET bundle == package.tree[rIndex]
     IN IF err
          THEN /\ rPc' = "done"
               /\ rResult' = [err |-> TRUE, result |-> memo]
               /\ UNCHANGED <<memo, rIndex, rAppended>>
          ELSE /\ advance(appended(memo, bundle, compiled(bundle)))
               /\ rAppended' = Append(rAppended, bundle.key)
  /\ UNCHANGED restVars
  /\ UNCHANGED <<middleware, engineVars, feVars, parseVars, dVars, rExtensions,
                 count, totals, details, rStarted>>

InitReduceVars ==
  /\ rPc = "idle"
  /\ rExtensions = {}
  /\ rIndex = 1
  /\ memo = EmptyMemo
  /\ count = [e \in SourceExts |-> 0]
  /\ totals = [e \in SourceExts |-> 0]
  /\ details = <<>>
  /\ rResult = "none"
  /\ rStarted = <<>>
  /\ rAppended = <<>>

\* ------------------------------------------------------------------------
\* directive: the scan of the lines (lines 1142-1183)
\* ------------------------------------------------------------------------
\* A line of text is a sequence of characters.  A line of the data is a
\* record: `text` is the line, and for a line that reqparse matches it is
\* the line after line.replace(reqparse, insert), line 1164.
PlainLines == {<<>>, <<" ">>, <<"x">>, <<"x", ";">>, <<" ", "x">>, <<"/", "/">>}
Inlined == {<<"\n", "/", "*">>, <<"y">>, <<";", "y">>, placeholder}
Line(d, t) == [directive |-> d, text |-> t]
InputLines == {Line(FALSE, t) : t \in PlainLines} \cup {Line(TRUE, t) : t \in Inlined}
RECURSIVE Data(_)
Data(n) ==
  IF n = 0 THEN {<<>>}
  ELSE Data(n - 1) \cup
       { Append(d, l) : d \in { x \in Data(n - 1) : Len(x) = n - 1 }, l \in InputLines }

\* /^(\/\/|\/\*)/.test(line), line 1146
isComment(line) ==
  Len(line) >= 2 /\ line[1] = "/" /\ line[2] \in {"/", "*"}

\* prev(index, lines), lines 1142-1152: the nearest line in front of the
\* index that holds content and is no comment, trimmed, or {} (here a
\* record with the empty line and index 0).
prev(idx, ls) ==
  LET C == { i \in 1..(idx - 1) :
               trim(ls[i]) /= <<>> /\ ~isComment(trim(ls[i])) }
  IN IF C = {} THEN [line |-> <<>>, index |-> 0]
     ELSE LET i == CHOOSE c \in C : \A o \in C : o <= c
          IN [line |-> trim(ls[i]), index |-> i]

\* The test of lines 1166-1172 without the test of the extension.
repairsAnyExtension(ext, last, content) ==
  /\ last.line /= <<>>
  /\ last.line[Len(last.line)] /= ";"
  /\ content /= <<>>
  /\ content[1] /= ";"

\* The test of lines 1166-1172.
repairs(ext, last, content) ==
  /\ ext = "js"
  /\ last.line /= <<>>
  /\ last.line[Len(last.line)] /= ";"
  /\ content /= <<>>
  /\ content[1] /= ";"

\* assemble.join('\n')
RECURSIVE JoinLines(_)
JoinLines(ls) ==
  IF ls = <<>> THEN <<>>
  ELSE IF Len(ls) = 1 THEN ls[1]
  ELSE ls[1] \o <<"\n">> \o JoinLines(Tail(ls))

\* scan(line, index, lines), lines 1158-1181
scanLine ==
  /\ sPc = "scan"
  /\ sIndex <= Len(lines)
  /\ LET line == lines[sIndex]
         last == prev(sIndex, assemble)
         content == line.text
     IN IF line.directive
          THEN assemble' =
                 Append(IF repairs(dExtension, last, content)
                          THEN [assemble EXCEPT ![last.index] = last.line \o <<";">>]
                          ELSE assemble,
                        content)
          ELSE assemble' = Append(assemble, line.text)
  /\ sIndex' = sIndex + 1
  /\ UNCHANGED <<coreVars, tVars, cVars, wVars, bVars, poVars, lastVars, sPc,
                 dExtension, lines, dText>>

\* return assemble.join('\n').trim(), line 1183
assembled ==
  /\ sPc = "scan"
  /\ sIndex > Len(lines)
  /\ sPc' = "done"
  /\ dText' = trim(JoinLines(assemble))
  /\ UNCHANGED <<coreVars, tVars, cVars, wVars, bVars, poVars, lastVars,
                 dExtension, lines, sIndex, assemble>>

InitScanVars ==
  /\ sPc = "scan"
  /\ dExtension = "js"
  /\ lines = << Line(FALSE, <<>>) >>
  /\ sIndex = 1
  /\ assemble = <<>>
  /\ dText = <<>>

\* ------------------------------------------------------------------------
\* template (lines 1343-1377)
\* ------------------------------------------------------------------------
\* The property names of the data; "0" is an array index.
PropNames == {"a", "0"}
\* A value is undefined, the string "v", or an object (or array) whose
\* properties are undefined or the string "v".
JsUndefined == [kind |-> "undefined", fields |-> [k \in PropNames |-> "undefined"]]
JsString == [kind |-> "string", fields |-> [k \in PropNames |-> "undefined"]]
JsObject(f) == [kind |-> "object", fields |-> f]
Leaf(kind) == IF kind = "string" THEN JsString ELSE JsUndefined
Values ==
  {JsUndefined, JsString}
    \cup { JsObject(f) : f \in [PropNames -> {"undefined", "string"}] }
\* A part of the template is literal text or a {placeholder}, whose prop is
\* the sequence prop.split('.').
Props == [1..1 -> PropNames] \cup [1..2 -> PropNames]
Parts == {[tag |-> FALSE, prop |-> <<>>]} \cup {[tag |-> TRUE, prop |-> p] : p \in Props}
RECURSIVE Templates(_)
Templates(n) ==
  IF n = 0 THEN {<<>>}
  ELSE Templates(n - 1) \cup
       { Append(t, x) : t \in { y \in Templates(n - 1) : Len(y) = n - 1 }, x \in Parts }

\* structure[+paths[i] || paths[i]], line 1367: the property of a value.
\* Reading a property of undefined throws a TypeError; a string has its
\* characters as properties, and "v"[0] is "v".
property(structure, name) ==
  CASE structure.kind = "object" -> Leaf(structure.fields[name])
    [] structure.kind = "string" -> IF name = "0" THEN JsString ELSE JsUndefined
    [] OTHER -> JsUndefined

\* TRUE when reading a property of the value throws.
throws(structure) == structure.kind = "undefined"

\* getObjectByKey(data, prop), lines 1360-1372: the value found, or that
\* the loop threw.  The properties of `data` hold no '.', so the data[prop]
\* of line 1371 is undefined for a dotted prop.
getObjectByKey(d, prop) ==
  IF Len(prop) = 1 THEN [threw |-> FALSE, value |-> d[prop[1]]]
  ELSE LET first == d[prop[1]]
       IN IF throws(first) THEN [threw |-> TRUE, value |-> JsUndefined]
          ELSE [threw |-> FALSE, value |-> property(first, prop[2])]

\* value || '' converted to a string by String#replace, line 1375
replacement(value) ==
  CASE value.kind = "string" -> <<"v">>
    [] value.kind = "object" -> <<"[object Object]">>
    [] OTHER -> <<>>

\* str.replace(/\{([^\{]+?)\}/g, replace), lines 1374-1376
RECURSIVE replaceAll(_, _)
replaceAll(t, d) ==
  IF t = <<>> THEN [threw |-> FALSE, text |-> <<>>]
  ELSE LET found == IF Head(t).tag THEN getObjectByKey(d, Head(t).prop)
                    ELSE [threw |-> FALSE, value |-> JsUndefined]
           rest == replaceAll(Tail(t), d)
       IN IF found.threw \/ rest.threw THEN [threw |-> TRUE, text |-> <<>>]
          ELSE [threw |-> FALSE,
                text |-> (IF Head(t).tag THEN replacement(found.value)
                          ELSE <<"h">>) \o rest.text]

\* template(str, data), lines 1343-1377
template ==
  /\ tPc = "idle"
  /\ tPc' = "done"
  /\ tOut' = replaceAll(str, data)
  /\ UNCHANGED <<coreVars, sVars, cVars, wVars, bVars, poVars, lastVars, str, data>>

InitTemplateVars ==
  /\ tPc = "idle"
  /\ str = <<>>
  /\ data = [k \in PropNames |-> JsUndefined]
  /\ tOut = [threw |-> FALSE, text |-> <<>>]

\* ------------------------------------------------------------------------
\* The cache (this.cache, line 81) and tag (lines 1386-1424)
\* ------------------------------------------------------------------------
\* The keys under which tag memoizes the output of the VCS.
CacheKeys == {"git branch", "git show"}
\* The builds of the model; 0 stands for a caller outside of a build.
Builds == 1..MaxBuilds
Absent == [has |-> FALSE, owner |-> 0]

\* new Expires('3 minutes'): a stopped cache without entries.
EmptyCache == [running |-> FALSE, entries |-> [k \in CacheKeys |-> Absent]]
\* cache.start()
cacheStart(c) == [c EXCEPT !.running = TRUE]
\* cache.stop(): the cache is stopped and its entries are gone.
cacheStop(c) == EmptyCache
\* cache.has(key)
cacheHas(c, key) == c.entries[key].has
\* cache.set(key, value); the entry records the build that set it.
cacheSet(c, key, b) == [c EXCEPT !.entries[key] = [has |-> TRUE, owner |-> b]]

\* A lookup that never finds the entry.
lookupMisses(c, key) == FALSE

\* this.cache.has(key), lines 1395 and 1399
lookup(c, key) == cacheHas(c, key)

\* The cache after one of the two lookups of tag(): the output of the VCS
\* is memoized when the cache does not have it (lines 1395-1401).
memoized(c, key, b) == IF lookup(c, key) THEN c ELSE cacheSet(c, key, b)

\* The cache after a tag() call made by build b.
tagged(c, b) == memoized(memoized(c, "git branch", b), "git show", b)

\* What the two lookups of a tag() call made by build b found: for a hit
\* the build that memoized the value, for a miss the VCS is executed.
lookups(c, b) ==
  << [build |-> b, key |-> "git branch", hit |-> lookup(c, "git branch"),
      owner |-> c.entries["git branch"].owner],
     [build |-> b, key |-> "git show",
      hit |-> lookup(memoized(c, "git branch", b), "git show"),
      owner |-> c.entries["git show"].owner] >>

InitCacheVars ==
  /\ cache = EmptyCache
  /\ tagLog = <<>>

\* ------------------------------------------------------------------------
\* storage (lines 270-288), write (lines 1439-1488), license (1497-1507)
\* ------------------------------------------------------------------------
StorageIds == 1..MaxStorages

\* license(collection), lines 1497-1507: the content with the templated
\* license wrapped in a comment in front of it.
licensed(content) ==
  IF ~license THEN content
  ELSE IF content = <<>> THEN <<>>
  ELSE <<"/* license */">> \o content

\* The decision of lines 1475-1487 taken as if stdout were never set.
persistsOnStdout(content) ==
  /\ ~(env = "testing" /\ content /= <<>>)
  /\ writable
  /\ content /= <<>>

\* The decision of lines 1475-1487: TRUE when the storages are called.
persists(content) ==
  /\ ~stdout
  /\ ~(env = "testing" /\ content /= <<>>)
  /\ writable
  /\ content /= <<>>

\* storage(engine), lines 270-288
storage ==
  /\ wPc = "idle"
  /\ storages < MaxStorages
  /\ storages' = storages + 1
  /\ UNCHANGED <<coreVars, sVars, tVars, cVars, bVars, poVars, lastVars, stdout, env,
                 writable, license, wPc, wCollection, wStorage, wCompleted, wLive,
                 wLog>>

\* The storage tasks that did not call back yet.
inflight(st) == { i \in StorageIds : st[i] = "inflight" }

\* finished(err), lines 1468-1471, called for the collection `coll` while the
\* tasks `st` are as given:
\* critical() for an error, then fn(err, collection).
finished(err, st, coll) ==
  IF ~err
    THEN /\ wLog' = Append(wLog, [err |-> FALSE, inflight |-> inflight(st),
                                  collection |-> coll])
         /\ wPc' = IF inflight(st) = {} THEN "done" ELSE "parallel"
         /\ UNCHANGED <<errors, exited>>
    ELSE /\ errors' = Append(errors, "failed to store")
         /\ CASE critical = "exit" ->
                   /\ exited' = TRUE
                   /\ wPc' = "exit"
                   /\ wLog' = wLog
              [] critical = "throw" ->
                   /\ exited' = exited
                   /\ wPc' = "threw"
                   /\ wLog' = wLog
              [] critical = "false" ->
                   /\ exited' = exited
                   /\ wPc' = IF inflight(st) = {} THEN "done" ELSE "parallel"
                   /\ wLog' = Append(wLog, [err |-> TRUE, inflight |-> inflight(st),
                                            collection |-> coll])

\* write(collection, fn), lines 1439-1488, for a collection with the given
\* content.  tag() is called by line 1441 and, when there is a license and
\* content, by license() (line 1505).
writeCollection(content) ==
  /\ wPc = "idle"
  /\ ~exited
  /\ LET twice == license /\ content /= <<>>
         once == tagged(cache, 0)
     IN /\ cache' = once
        /\ tagLog' = tagLog \o lookups(cache, 0)
                        \o (IF twice THEN lookups(once, 0) ELSE <<>>)
  /\ wCollection' = [content |-> licensed(content), file |-> "dist",
                      basename |-> "base"]
  /\ IF persists(licensed(content))
       THEN IF storages = 0
              THEN /\ finished(FALSE, wStorage,
                               [content |-> licensed(content), file |-> "dist",
                                basename |-> "base"])
                   /\ UNCHANGED <<wStorage, wCompleted, wLive>>
              ELSE /\ wPc' = "parallel"
                   /\ wStorage' = [i \in StorageIds |->
                                     IF i <= storages THEN "inflight" ELSE "idle"]
                   /\ wCompleted' = 0
                   /\ wLive' = TRUE
                   /\ UNCHANGED <<wLog, errors, exited>>
       ELSE /\ wPc' = "tick"
            /\ UNCHANGED <<wStorage, wCompleted, wLive, wLog, errors, exited>>
  /\ UNCHANGED <<middleware, cli, listener, feVars, parseVars, dVars, rVars,
                 sVars, tVars, bVars, poVars, lastVars, stdout, env, writable, license,
                 storages>>

\* process.nextTick(finished), lines 1476, 1479, 1486
tick ==
  /\ wPc = "tick"
  /\ finished(FALSE, wStorage, wCollection)
  /\ UNCHANGED <<middleware, cli, listener, feVars, parseVars, dVars, rVars,
                 sVars, tVars, cVars, bVars, poVars, lastVars, stdout, env, writable,
                 license, storages, wCollection, wStorage, wCompleted, wLive>>

\* A storage engine calls back, with or without an error: the callback that
\* async.parallel handed to the task (async.forEach's iterator callback).
settle(i, err) ==
  /\ wPc = "parallel"
  /\ wStorage[i] = "inflight"
  /\ LET st == [wStorage EXCEPT ![i] = IF err THEN "failed" ELSE "stored"]
     IN /\ wStorage' = st
        /\ IF err
             THEN /\ wLive' = FALSE
                  /\ wCompleted' = wCompleted
                  /\ IF wLive
                       THEN finished(TRUE, st, wCollection)
                       ELSE /\ wPc' = IF inflight(st) = {} THEN "done" ELSE wPc
                            /\ UNCHANGED <<wLog, errors, exited>>
             ELSE /\ wCompleted' = wCompleted + 1
                  /\ wLive' = wLive
                  /\ IF wLive /\ wCompleted + 1 = storages
                       THEN finished(FALSE, st, wCollection)
                       ELSE /\ wPc' = IF inflight(st) = {} THEN "done" ELSE wPc
                            /\ UNCHANGED <<wLog, errors, exited>>
  /\ UNCHANGED <<middleware, cli, listener, feVars, parseVars, dVars, rVars,
                 sVars, tVars, cVars, bVars, poVars, lastVars, stdout, env, writable,
                 license, storages, wCollection>>

InitWriteVars ==
  /\ stdout = FALSE
  /\ env = "development"
  /\ writable = TRUE
  /\ license = FALSE
  /\ storages = 0
  /\ wPc = "idle"
  /\ wCollection = [content |-> <<>>, file |-> "", basename |-> ""]
  /\ wStorage = [i \in StorageIds |-> "idle"]
  /\ wCompleted = 0
  /\ wLive = TRUE
  /\ wLog = <<>>

\* ------------------------------------------------------------------------
\* build (lines 1193-1290)
\* ------------------------------------------------------------------------
\* The builds that have begun and did not reach done().
running(pc) == { b \in Builds : pc[b] \in {"reduce", "pipeline", "writing"} }

\* done() that leaves the cache as it is.
doneCacheRunning(c) == c

\* self.cache.stop(), line 1253
doneCache(c) == cacheStop(c)

\* The lookups of n successive tag() calls of build b, and the cache after.
RECURSIVE tags(_, _, _)
tags(c, b, n) ==
  IF n = 0 THEN [cache |-> c, log |-> <<>>]
  ELSE LET rest == tags(tagged(c, b), b, n - 1)
       IN [cache |-> rest.cache, log |-> lookups(c, b) \o rest.log]

\* done(err, files), lines 1251-1267, after the messages `said` were handed
\* to critical() in the same step.  `c` is the cache when done is called.
buildDone(b, err, said, c) ==
  /\ cache' = doneCache(c)
  /\ bPc' = [bPc EXCEPT ![b] = "done"]
  /\ bResult' = [bResult EXCEPT ![b] = IF err THEN "err" ELSE "ok"]
  /\ IF err /\ ~bFn[b]
       THEN /\ errors' = errors \o said \o <<"build failed">>
            /\ exited' = (critical = "exit")
       ELSE /\ errors' = errors \o said
            /\ exited' = exited

\* The test of line 1270 that finds a configuration in every package.
configuredAlways(pkg) == TRUE

\* 'configuration' in this.package, line 1270
configured(pkg) == pkg.configuration

\* build(platform, extensions, fn), lines 1193-1198 and 1270-1284
build(b, fn) ==
  /\ bPc[b] = "idle"
  /\ \A x \in Builds : x < b => bPc[x] /= "idle"
  /\ ~exited
  /\ bFn' = [bFn EXCEPT ![b] = fn]
  /\ IF ~configured(package)
       THEN /\ bPc' = [bPc EXCEPT ![b] = "threw"]
            /\ UNCHANGED <<cache, bDoneBefore>>
       ELSE /\ cache' = cacheStart(cache)
            /\ bPc' = [bPc EXCEPT ![b] = "reduce"]
            /\ bDoneBefore' = [bDoneBefore EXCEPT ![b] =
                                 { x \in Builds : bPc[x] = "done" }]
  /\ UNCHANGED <<coreVars, sVars, tVars, wVars, poVars, lastVars, tagLog, bCollections,
                 bResult>>

\* reduced() that goes on to the pipeline with an error.
abortsNever(err) == FALSE

\* if (err) return done(err), lines 1208 and 1238
aborts(err) == err

\* The number of output extensions of a result of reduce: the collections
\* that reduced() makes of it (line 1210).
collections(result) == Cardinality({ e \in OutputExts : result[e].has })

\* reduced(err, result), lines 1207-1229: reduce called back, with an error
\* or with a result of n output extensions.  async.map of no collections
\* calls writer, and writer's async.map calls done, at once.
reduced(b, err, n) ==
  /\ bPc[b] = "reduce"
  /\ ~exited
  /\ bCollections' = [bCollections EXCEPT ![b] = IF err THEN 0 ELSE n]
  /\ IF aborts(err) \/ n = 0
       THEN buildDone(b, err, <<>>, cache)
       ELSE /\ bPc' = [bPc EXCEPT ![b] = "pipeline"]
            /\ UNCHANGED <<cache, bResult, errors, exited>>
  /\ UNCHANGED <<middleware, cli, listener, feVars, parseVars, dVars, rVars,
                 sVars, tVars, wVars, poVars, lastVars, tagLog, bFn, bDoneBefore>>

\* writer(err, collections), lines 1237-1244: the pipelines called back.
\* async.map calls write for every collection before it returns, and
\* write calls tag (line 1441), and again for the license (line 1505).
writer(b, err) ==
  /\ bPc[b] = "pipeline"
  /\ ~exited
  /\ IF err
       THEN /\ buildDone(b, TRUE, <<>>, cache)
            /\ tagLog' = tagLog
       ELSE LET calls == bCollections[b] * (IF license THEN 2 ELSE 1)
                after == tags(cache, b, calls)
            IN /\ cache' = after.cache
               /\ tagLog' = tagLog \o after.log
               /\ bPc' = [bPc EXCEPT ![b] = "writing"]
               /\ UNCHANGED <<bResult, errors, exited>>
  /\ UNCHANGED <<middleware, cli, listener, feVars, parseVars, dVars, rVars,
                 sVars, tVars, wVars, poVars, lastVars, bFn, bCollections, bDoneBefore>>

\* The writes called back: async.map(collections, write, done), line 1243.
\* A failing write hands its error to critical() first (line 1469), which
\* returns only with an 'error' listener in library mode.
written(b, err) ==
  /\ bPc[b] = "writing"
  /\ ~exited
  /\ IF ~err
       THEN buildDone(b, FALSE, <<>>, cache)
       ELSE IF critical = "false"
         THEN buildDone(b, TRUE, <<"failed to store">>, cache)
         ELSE /\ errors' = Append(errors, "failed to store")
              /\ exited' = (critical = "exit")
              /\ bPc' = [bPc EXCEPT ![b] = "stuck"]
              /\ UNCHANGED <<cache, bResult>>
  /\ UNCHANGED <<middleware, cli, listener, feVars, parseVars, dVars, rVars,
                 sVars, tVars, wVars, poVars, lastVars, tagLog, bFn, bCollections,
                 bDoneBefore>>

InitBuildVars ==
  /\ bPc = [b \in Builds |-> "idle"]
  /\ bFn = [b \in Builds |-> FALSE]
  /\ bCollections = [b \in Builds |-> 0]
  /\ bDoneBefore = [b \in Builds |-> {}]
  /\ bResult = [b \in Builds |-> "none"]

\* ------------------------------------------------------------------------
\* parse(data, true): the recursive parse of an import (lines 612-665)
\* ------------------------------------------------------------------------
\* What read(args) leaves in this.package (lines 894 and 966): parse calls
\* it without the readOnly argument (line 613).
saved(before, structure) == structure

\* parse(data, true) for an imported manifest that declares one bundle.
\* `kind` is "string" for a path, as the importer passes (line 655), and
\* "object" for a structure.  For a path, struct is the string itself
\* (line 636) and the `in` of line 640 throws a TypeError.
parseOnly(kind, exists) ==
  /\ poRet = "none"
  /\ fePc = "idle"
  /\ rPc = "idle"
  /\ ~exited
  /\ poBefore' = package
  /\ LET structure == [EmptyPackage EXCEPT
                         !.configuration = TRUE,
                         !.bundle = << [weight |-> 0, exists |-> TRUE,
                                        extension |-> "js", content |-> <<>>] >>]
     IN IF kind = "string" /\ ~exists
          THEN \* read, lines 894 and 913-916, and its catch block, line 962
               /\ package' = saved(package, EmptyPackage)
               /\ errors' = errors \o
                    (IF critical = "throw"
                       THEN <<"manifest does not exist", "failed to parse the bundle">>
                       ELSE <<"manifest does not exist">>)
               /\ poRet' = IF critical = "throw" THEN "threw" ELSE critical
               /\ exited' = (critical = "exit")
          ELSE /\ package' = saved(package, structure)
               /\ poRet' = IF kind = "string" THEN "threw" ELSE "struct"
               /\ UNCHANGED <<errors, exited>>
  /\ UNCHANGED <<middleware, cli, listener, feVars, manifest, parseRet, preprocess,
                 dVars, rVars, sVars, tVars, cVars, wVars, bVars, lastVars>>

InitParseOnlyVars ==
  /\ poRet = "none"
  /\ poBefore = EmptyPackage

\* ------------------------------------------------------------------------
\* parse of a manifest whose bundle is a list (lines 699-703, 856-868)
\* ------------------------------------------------------------------------
\* The file paths that a list may hold.
ListFiles == {"a.js", "b.js", "c.css"}
RECURSIVE Lists(_)
Lists(n) ==
  IF n = 0 THEN {<<>>}
  ELSE Lists(n - 1) \cup
       { Append(l, f) : l \in { x \in Lists(n - 1) : Len(x) = n - 1 }, f \in ListFiles }

\* A value of the reducer's memo: an object (path -> weight, 0 for a path
\* that is no key) or undefined.
Memo(map) == [def |-> TRUE, map |-> map]
NoMemo == [def |-> FALSE, map |-> [f \in ListFiles |-> 0]]

\* createBundle(path, index), lines 856-868: the weight.  this.package.bundle
\* is the list itself while the list is reduced, so the fallback is 1.
createBundle(file, idx) == IF idx /= 0 THEN idx ELSE 1

\* The reducer of lines 700-702 called with (memo, file, index): it sets
\* memo[file], which throws a TypeError for an undefined memo, and returns
\* nothing, so the next memo is undefined.
bundleReducer(m, file, idx) ==
  IF ~m.def THEN [threw |-> TRUE, memo |-> NoMemo, object |-> m]
  ELSE [threw |-> FALSE, memo |-> NoMemo,
        object |-> Memo([m.map EXCEPT ![file] = createBundle(file, idx)])]

\* Array#reduce(callback, initial) from the 0-based index idx on.
RECURSIVE arrayReduce(_, _, _)
arrayReduce(files, idx, m) ==
  IF idx = Len(files) THEN [threw |-> FALSE, memo |-> m, object |-> m]
  ELSE LET step == bundleReducer(m, files[idx + 1], idx)
       IN IF step.threw THEN step
          ELSE arrayReduce(files, idx + 1, step.memo)

\* parse(data) for a structure whose bundle is the list lFiles: lines
\* 699-703, and Object.keys(struct.bundle) of line 718, which throws a
\* TypeError for undefined.
parseList ==
  /\ lRet = "none"
  /\ ~exited
  /\ LET reduction == arrayReduce(lFiles, 0, Memo([f \in ListFiles |-> 0]))
     IN /\ lBundle' = reduction.memo
        /\ lRet' = IF reduction.threw \/ ~reduction.memo.def THEN "threw" ELSE "true"
  /\ UNCHANGED <<coreVars, sVars, tVars, cVars, wVars, bVars, poVars, lFiles, aVars, gVars>>

InitListVars ==
  /\ lFiles = <<>>
  /\ lRet = "none"
  /\ lBundle = NoMemo

\* ------------------------------------------------------------------------
\* use, plugin and read called on the engine (lines 254-265, 322-358,
\* 881-969)
\* ------------------------------------------------------------------------
\* An argument of use() that is no function.
NonFunction == [name |-> "", kind |-> "string", async |-> FALSE]
\* typeof layer === 'function'
isFunction(layer) == layer.kind \in Kinds
\* The arguments that use() is called with.
UseArgs == { l \in Layers : ~l.async /\ l.kind \in {"replace", "noop"} }
             \cup {NonFunction}

\* The directories that hold plugins and the plugin modules in them: the
\* bundled directory has the plugin f, the other one has its own f and g.
Dirs == {"plugins", "fixtures"}
PluginNames == {"f", "g", "h"}
Modules == [d \in Dirs |-> IF d = "plugins" THEN {"f"} ELSE {"f", "g"}]
\* middleware.call(this, options): the layer that the module `name` of the
\* directory `dir` returns.
pluginLayer(dir, name) ==
  [name |-> name, kind |-> IF dir = "plugins" THEN "replace" ELSE "noop",
   async |-> FALSE]

\* use(layer), lines 254-265: what becomes of this.middleware and what is
\* returned.
used(layer) ==
  IF ~isFunction(layer) THEN [middleware |-> middleware, ret |-> "false"]
  ELSE IF has(layer) THEN [middleware |-> middleware, ret |-> "false"]
  ELSE [middleware |-> Append(middleware, layer), ret |-> "true"]

\* square.use(layer)
useCall(layer) ==
  /\ ~exited
  /\ nCalls < MaxCalls
  /\ nCalls' = nCalls + 1
  /\ apiCall' = [op |-> "use", arg |-> layer]
  /\ middleware' = used(layer).middleware
  /\ apiRet' = used(layer).ret
  /\ useLog' = Append(useLog, layer)
  /\ UNCHANGED <<engineVars, feVars, parseVars, dVars, rVars, sVars, tVars, cVars,
                 wVars, bVars, poVars, lVars, gVars, paths, inits>>

\* square.paths.push(directory)
push(dir) ==
  /\ ~exited
  /\ \A i \in 1..Len(paths) : paths[i] /= dir
  /\ paths' = Append(paths, dir)
  /\ UNCHANGED <<coreVars, sVars, tVars, cVars, wVars, bVars, poVars, lVars, gVars,
                 nCalls, apiCall, apiRet, useLog, inits>>

\* The places of this.paths at which require() finds the plugin.
places(name) == { i \in 1..Len(paths) : name \in Modules[paths[i]] }

\* The loop of lines 336-343 with the break dropped: the module of the last
\* place is kept.
locationLast(name) == CHOOSE i \in places(name) : \A j \in places(name) : j <= i

\* The loop of lines 336-343: the first place whose require() succeeds.
location(name) == CHOOSE i \in places(name) : \A j \in places(name) : i <= j

\* square.plugin(name), lines 322-358
plugin(name) ==
  /\ ~exited
  /\ nCalls < MaxCalls
  /\ nCalls' = nCalls + 1
  /\ apiCall' = [op |-> "plugin", arg |-> name]
  /\ IF places(name) = {}
       THEN \* lines 347-354
            /\ errors' = Append(errors, "unable to load the plugin")
            /\ apiRet' = IF critical = "throw" THEN "threw" ELSE critical
            /\ exited' = (critical = "exit")
            /\ UNCHANGED <<middleware, useLog, inits>>
       ELSE \* lines 356-357
            LET dir == paths[location(name)]
                layer == pluginLayer(dir, name)
            IN /\ inits' = Append(inits, <<dir, name>>)
               /\ middleware' = used(layer).middleware
               /\ useLog' = Append(useLog, layer)
               /\ apiRet' = "true"
               /\ UNCHANGED <<errors, exited>>
  /\ UNCHANGED <<cli, listener, feVars, parseVars, dVars, rVars, sVars, tVars, cVars,
                 wVars, bVars, poVars, lVars, gVars, paths>>

\* square.read(path) for the path of the manifest, lines 881-969
readManifest ==
  /\ ~exited
  /\ nCalls < MaxCalls
  /\ nCalls' = nCalls + 1
  /\ apiCall' = [op |-> "read", arg |-> "manifest"]
  /\ IF ~manifest.exists
       THEN \* lines 894 and 913-916, and the catch block, line 962
            /\ package' = EmptyPackage
            /\ errors' = errors \o
                           (IF critical = "throw"
                              THEN <<"manifest does not exist", "failed to parse the bundle">>
                              ELSE <<"manifest does not exist">>)
            /\ apiRet' = IF critical = "throw" THEN "threw" ELSE critical
            /\ exited' = (critical = "exit")
       ELSE /\ package' = [EmptyPackage EXCEPT !.configuration = TRUE,
                                               !.bundle = manifest.bundles]
            /\ apiRet' = "true"
            /\ UNCHANGED <<errors, exited>>
  /\ UNCHANGED <<middleware, cli, listener, feVars, manifest, parseRet, preprocess,
                 dVars, rVars, sVars, tVars, cVars, wVars, bVars, poVars, lVars, gVars,
                 paths, useLog, inits>>

InitApiVars ==
  /\ paths = <<"plugins">>
  /\ nCalls = 0
  /\ apiCall = [op |-> "none", arg |-> "none"]
  /\ apiRet = "none"
  /\ useLog = <<>>
  /\ inits = <<>>

\* ------------------------------------------------------------------------
\* build: the pipelines and the writes of one build (lines 1207-1267)
\* ------------------------------------------------------------------------
\* What the pipeline of a collection hands to its callback, in order, TRUE
\* for an error: forEach calls back without an error, with an error, or,
\* for a layer that throws after it called yep (lines 396-397), without an
\* error first and with the error next, in the same turn.
Outcomes == {<<FALSE>>, <<TRUE>>, <<FALSE, TRUE>>}

Event(what, err) == [what |-> what, err |-> err]

\* done(err, files), lines 1251-1267: what it hands to critical() and to
\* the callback, and the 'build' event it emits, in order.  critical()
\* returns only in library mode with an 'error' listener.
doneEvents(err, fn) ==
  LET crit == err /\ ~fn
  IN (IF crit THEN << Event("critical", TRUE) >> ELSE <<>>)
     \o (IF fn THEN << Event("callback", err) >> ELSE <<>>)
     \o (IF crit /\ critical /= "false" THEN <<>> ELSE << Event("build", err) >>)

\* The state of the two maps of a build.
Stage(p, handed, writing, events) ==
  [p |-> p, handed |-> handed, writing |-> writing, events |-> events]

\* writer(err, collections), lines 1237-1244, for n collections: done(err),
\* or async.map hands every collection to write (done at once for none).
writerCalled(st, err, n, fn) ==
  IF err THEN [st EXCEPT !.events = @ \o doneEvents(TRUE, fn)]
  ELSE IF n = 0 THEN [st EXCEPT !.events = @ \o doneEvents(FALSE, fn)]
  ELSE [st EXCEPT !.handed = 1..n, !.writing = 1..n]

\* A pipeline calls back into async.map (line 1228): on an error writer is
\* called and replaced by a no-op, else completed is counted and writer is
\* called when it reaches the number of collections.
pipelineCalled(st, err, n, fn) ==
  IF err
    THEN IF st.p.live
           THEN [writerCalled(st, TRUE, n, fn) EXCEPT !.p.live = FALSE]
           ELSE st
    ELSE LET k == st.p.completed + 1
         IN IF k = n /\ st.p.live
              THEN [writerCalled(st, FALSE, n, fn) EXCEPT !.p.completed = k]
              ELSE [st EXCEPT !.p.completed = k]

\* The messages that reach critical() with the events, and whether the
\* process is ended by them.
RECURSIVE criticals(_)
criticals(events) ==
  IF events = <<>> THEN <<>>
  ELSE (IF Head(events).what = "critical" THEN <<"build failed">> ELSE <<>>)
       \o criticals(Tail(events))

\* The events are appended and handed to critical().
emitted(events) ==
  LET new == SubSeq(events, Len(gEvents) + 1, Len(events))
  IN /\ gEvents' = events
     /\ errors' = errors \o criticals(new)
     /\ exited' = (exited \/ (criticals(new) /= <<>> /\ critical = "exit"))

\* reduced(undefined, result), lines 1210-1228, for a result of n output
\* extensions, in a build with or without a callback: async.map starts
\* the pipeline of every collection (and calls writer at once for none).
pipelines(n, fn) ==
  /\ gPc = "idle"
  /\ ~exited
  /\ gPc' = "built"
  /\ gN' = n
  /\ gFn' = fn
  /\ pPending' = 1..n
  /\ LET st == Stage(pMap, gHanded, gWriting, gEvents)
         after == IF n = 0 THEN writerCalled(st, FALSE, n, fn) ELSE st
     IN /\ emitted(after.events)
        /\ UNCHANGED <<pMap, gHanded, gWriting>>
  /\ UNCHANGED <<middleware, cli, listener, feVars, parseVars, dVars, rVars, sVars,
                 tVars, cVars, wVars, bVars, poVars, lVars, aVars, pFailed, gMap>>

\* The pipeline of the collection c calls back (forEach's cb, lines
\* 406-408), once or twice.
piped(c, outcome) ==
  /\ c \in pPending
  /\ ~exited
  /\ pPending' = pPending \ {c}
  /\ pFailed' = IF outcome[Len(outcome)] THEN pFailed \cup {c} ELSE pFailed
  /\ LET st == Stage(pMap, gHanded, gWriting, gEvents)
         first == pipelineCalled(st, outcome[1], gN, gFn)
         after == IF Len(outcome) = 2
                    THEN pipelineCalled(first, outcome[2], gN, gFn)
                    ELSE first
     IN /\ pMap' = after.p
        /\ gHanded' = after.handed
        /\ gWriting' = after.writing
        /\ emitted(after.events)
  /\ UNCHANGED <<middleware, cli, listener, feVars, parseVars, dVars, rVars, sVars,
                 tVars, cVars, wVars, bVars, poVars, lVars, aVars, gPc, gN, gFn, gMap>>

\* The write of the collection c calls back into async.map (line 1243).  A
\* failing write hands its error to critical() first (line 1469), which
\* returns only in library mode with an 'error' listener.
stored(c, err) ==
  /\ c \in gWriting
  /\ ~exited
  /\ gWriting' = gWriting \ {c}
  /\ IF err
       THEN IF critical /= "false"
              THEN /\ errors' = Append(errors, "failed to store")
                   /\ exited' = (critical = "exit")
                   /\ UNCHANGED <<gMap, gEvents>>
              ELSE /\ gMap' = [gMap EXCEPT !.live = FALSE]
                   /\ LET new == IF gMap.live THEN doneEvents(TRUE, gFn) ELSE <<>>
                      IN /\ gEvents' = gEvents \o new
                         /\ errors' = errors \o <<"failed to store">> \o criticals(new)
                   /\ exited' = exited
       ELSE LET k == gMap.completed + 1
            IN /\ gMap' = [gMap EXCEPT !.completed = k]
               /\ IF k = gN /\ gMap.live
                    THEN emitted(gEvents \o doneEvents(FALSE, gFn))
                    ELSE UNCHANGED <<gEvents, errors, exited>>
  /\ UNCHANGED <<middleware, cli, listener, feVars, parseVars, dVars, rVars, sVars,
                 tVars, cVars, wVars, bVars, poVars, lVars, aVars, gPc, gN, gFn,
                 pPending, pFailed, pMap, gHanded>>

InitStageVars ==
  /\ gPc = "idle"
  /\ gN = 0
  /\ gFn = FALSE
  /\ pPending = {}
  /\ pFailed = {}
  /\ pMap = [completed |-> 0, live |-> TRUE]
  /\ gHanded = {}
  /\ gWriting = {}
  /\ gMap = [completed |-> 0, live |-> TRUE]
  /\ gEvents = <<>>

InitLastVars ==
  /\ InitListVars
  /\ InitApiVars
  /\ InitStageVars

InitRestVars ==
  /\ InitScanVars
  /\ InitTemplateVars
  /\ InitCacheVars
  /\ InitWriteVars
  /\ InitBuildVars
  /\ InitParseOnlyVars
  /\ InitLastVars

InitEngine ==
  /\ middleware = <<>>
  /\ cli = FALSE
  /\ listener = FALSE
  /\ errors = <<>>
  /\ exited = FALSE

InitForEachVars ==
  /\ fePc = "idle"
  /\ collection = Coll(InputContent)
  /\ backup = Coll(InputContent)
  /\ completed = 0
  /\ live = TRUE
  /\ feStack = <<>>
  /\ fePending = {}
  /\ invoked = [i \in Indices |-> 0]
  /\ continued = [i \in Indices |-> 0]
  /\ failed = {}
  /\ cbLog = <<>>

vars == <<coreVars, restVars>>

InitForEach ==
  /\ InitEngine
  /\ InitForEachVars
  /\ InitParseVars
  /\ InitDirectiveVars
  /\ InitReduceVars
  /\ InitRestVars

NextForEach ==
  \/ \E l \in Layers : use(l)
  \/ forEach
  \/ iterate
  \/ unwind
  \/ \E i \in Indices : complete(i)

SpecForEach == InitForEach /\ [][NextForEach]_vars

\* An engine in library or CLI mode, and a manifest path that exists or not.
InitParse ==
  /\ middleware = <<>>
  /\ cli \in BOOLEAN
  /\ listener = FALSE
  /\ errors = <<>>
  /\ exited = FALSE
  /\ InitForEachVars
  /\ manifest \in {[exists |-> e, bundles |-> <<>>] : e \in BOOLEAN}
  /\ package = EmptyPackage
  /\ parseRet = "none"
  /\ preprocess = [e \in {"styl"} |-> <<"css">>]
  /\ InitDirectiveVars
  /\ InitReduceVars
  /\ InitRestVars

NextParse ==
  \/ \E d \in Decls(0..MaxWeight, {"js", "styl"}, {<<>>}) : declare(d)
  \/ on
  \/ parse

SpecParse == InitParse /\ [][NextParse]_vars

\* An engine in library or CLI mode and a directory of files without
\* directives.
InitDirective ==
  /\ middleware = <<>>
  /\ cli \in BOOLEAN
  /\ listener = FALSE
  /\ errors = <<>>
  /\ exited = FALSE
  /\ InitForEachVars
  /\ InitParseVars
  /\ InitDirectiveVars
  /\ InitReduceVars
  /\ InitRestVars

NextDirective ==
  \/ \E f \in Files, t \in Targets : write(f, t)
  \/ on
  \/ \E f \in Files : directive(f)
  \/ scan
  \/ join

SpecDirective == InitDirective /\ [][NextDirective]_vars

\* A library-mode engine that parses a manifest of existing bundle files
\* and reduces it.
InitReduce ==
  /\ InitEngine
  /\ InitForEachVars
  /\ InitParseVars
  /\ InitDirectiveVars
  /\ InitReduceVars
  /\ InitRestVars

NextReduce ==
  \/ \E d \in Decls({0, MaxWeight}, SourceExts, {<<>>, <<"}">>}) :
       d.exists /\ declare(d)
  \/ parse
  \/ \E exts \in SUBSET {"js", "css"} : reduce(exts)
  \/ reduceBundle
  \/ \E err \in BOOLEAN : compiling(err)

SpecReduce == InitReduce /\ [][NextReduce]_vars

\* One directive() call with every data of up to MaxScan lines, for a
\* script and for a style sheet.
InitScan ==
  /\ InitEngine
  /\ InitForEachVars
  /\ InitParseVars
  /\ InitDirectiveVars
  /\ InitReduceVars
  /\ sPc = "scan"
  /\ dExtension \in {"js", "css"}
  /\ lines \in { d \in Data(MaxScan) : Len(d) >= 1 }
  /\ sIndex = 1
  /\ assemble = <<>>
  /\ dText = <<>>
  /\ InitTemplateVars
  /\ InitCacheVars
  /\ InitWriteVars
  /\ InitBuildVars
  /\ InitParseOnlyVars
  /\ InitLastVars

NextScan ==
  \/ scanLine
  \/ assembled

SpecScan == InitScan /\ [][NextScan]_vars

\* One template() call with every template of up to MaxParts parts and
\* every data object.
InitTemplate ==
  /\ InitEngine
  /\ InitForEachVars
  /\ InitParseVars
  /\ InitDirectiveVars
  /\ InitReduceVars
  /\ InitScanVars
  /\ tPc = "idle"
  /\ str \in Templates(MaxParts)
  /\ data \in [PropNames -> Values]
  /\ tOut = [threw |-> FALSE, text |-> <<>>]
  /\ InitCacheVars
  /\ InitWriteVars
  /\ InitBuildVars
  /\ InitParseOnlyVars
  /\ InitLastVars

NextTemplate == template

SpecTemplate == InitTemplate /\ [][NextTemplate]_vars

\* One write() call on an engine with every combination of the options
\* stdout, env, writable and license, in library or CLI mode.
InitWrite ==
  /\ middleware = <<>>
  /\ cli \in BOOLEAN
  /\ listener = FALSE
  /\ errors = <<>>
  /\ exited = FALSE
  /\ InitForEachVars
  /\ InitParseVars
  /\ InitDirectiveVars
  /\ InitReduceVars
  /\ InitScanVars
  /\ InitTemplateVars
  /\ InitCacheVars
  /\ stdout \in BOOLEAN
  /\ env \in {"development", "testing"}
  /\ writable \in BOOLEAN
  /\ license \in BOOLEAN
  /\ storages = 0
  /\ wPc = "idle"
  /\ wCollection = [content |-> <<>>, file |-> "", basename |-> ""]
  /\ wStorage = [i \in StorageIds |-> "idle"]
  /\ wCompleted = 0
  /\ wLive = TRUE
  /\ wLog = <<>>
  /\ InitBuildVars
  /\ InitParseOnlyVars
  /\ InitLastVars

NextWrite ==
  \/ on
  \/ storage
  \/ \E content \in {<<>>, <<"c">>} : writeCollection(content)
  \/ tick
  \/ \E i \in StorageIds, err \in BOOLEAN : settle(i, err)

SpecWrite == InitWrite /\ [][NextWrite]_vars

\* Builds of an engine in library or CLI mode, with or without a license,
\* whose manifest declares one bundle.
InitBuild ==
  /\ middleware = <<>>
  /\ cli \in BOOLEAN
  /\ listener = FALSE
  /\ errors = <<>>
  /\ exited = FALSE
  /\ InitForEachVars
  /\ manifest = [exists |-> TRUE,
                  bundles |-> << [weight |-> 0, exists |-> TRUE,
                                  extension |-> "js", content |-> <<>>] >>]
  /\ package = EmptyPackage
  /\ parseRet = "none"
  /\ preprocess = [e \in {"styl"} |-> <<"css">>]
  /\ InitDirectiveVars
  /\ InitReduceVars
  /\ InitScanVars
  /\ InitTemplateVars
  /\ InitCacheVars
  /\ stdout = FALSE
  /\ env = "development"
  /\ writable = TRUE
  /\ license \in BOOLEAN
  /\ storages = 0
  /\ wPc = "idle"
  /\ wCollection = [content |-> <<>>, file |-> "", basename |-> ""]
  /\ wStorage = [i \in StorageIds |-> "idle"]
  /\ wCompleted = 0
  /\ wLive = TRUE
  /\ wLog = <<>>
  /\ InitBuildVars
  /\ InitParseOnlyVars
  /\ InitLastVars

NextBuild ==
  \/ on
  \/ parse
  \/ \E b \in Builds, fn \in BOOLEAN : build(b, fn)
  \/ \E b \in Builds, err \in BOOLEAN, n \in 0..2 : reduced(b, err, n)
  \/ \E b \in Builds, err \in BOOLEAN : writer(b, err)
  \/ \E b \in Builds, err \in BOOLEAN : written(b, err)

SpecBuild == InitBuild /\ [][NextBuild]_vars

\* An engine that parses a manifest and parses an import in parse-only mode.
InitImport ==
  /\ InitParse

NextImport ==
  \/ \E d \in Decls({0}, {"js", "styl"}, {<<>>}) : declare(d)
  \/ on
  \/ parse
  \/ \E kind \in {"string", "object"}, exists \in BOOLEAN : parseOnly(kind, exists)

SpecImport == InitImport /\ [][NextImport]_vars

\* One parse() call for every list of up to MaxList file paths.
InitList ==
  /\ InitEngine
  /\ InitForEachVars
  /\ InitParseVars
  /\ InitDirectiveVars
  /\ InitReduceVars
  /\ InitScanVars
  /\ InitTemplateVars
  /\ InitCacheVars
  /\ InitWriteVars
  /\ InitBuildVars
  /\ InitParseOnlyVars
  /\ lFiles \in Lists(MaxList)
  /\ lRet = "none"
  /\ lBundle = NoMemo
  /\ InitApiVars
  /\ InitStageVars

NextList == parseList

SpecList == InitList /\ [][NextList]_vars

\* The engine as a library or under the command line, called with use,
\* plugin and read; options.paths may replace the search path (line 119).
InitApi ==
  /\ middleware = <<>>
  /\ cli \in BOOLEAN
  /\ listener = FALSE
  /\ errors = <<>>
  /\ exited = FALSE
  /\ InitForEachVars
  /\ manifest \in {[exists |-> e, bundles |-> <<>>] : e \in BOOLEAN}
  /\ package = EmptyPackage
  /\ parseRet = "none"
  /\ preprocess = [e \in {"styl"} |-> <<"css">>]
  /\ InitDirectiveVars
  /\ InitReduceVars
  /\ InitScanVars
  /\ InitTemplateVars
  /\ InitCacheVars
  /\ InitWriteVars
  /\ InitBuildVars
  /\ InitParseOnlyVars
  /\ InitListVars
  /\ paths \in {<<"plugins">>, <<"fixtures", "plugins">>}
  /\ nCalls = 0
  /\ apiCall = [op |-> "none", arg |-> "none"]
  /\ apiRet = "none"
  /\ useLog = <<>>
  /\ inits = <<>>
  /\ InitStageVars

NextApi ==
  \/ on
  \/ \E layer \in UseArgs : useCall(layer)
  \/ \E dir \in Dirs : push(dir)
  \/ \E name \in PluginNames : plugin(name)
  \/ readManifest

SpecApi == InitApi /\ [][NextApi]_vars

\* The pipelines and the writes of a build, as a library or under the
\* command line.
InitStages ==
  /\ middleware = <<>>
  /\ cli \in BOOLEAN
  /\ listener = FALSE
  /\ errors = <<>>
  /\ exited = FALSE
  /\ InitForEachVars
  /\ InitParseVars
  /\ InitDirectiveVars
  /\ InitReduceVars
  /\ InitRestVars

NextStages ==
  \/ on
  \/ \E n \in 0..MaxCollections, fn \in BOOLEAN : pipelines(n, fn)
  \/ \E c \in 1..MaxCollections, outcome \in Outcomes : piped(c, outcome)
  \/ \E c \in 1..MaxCollections, err \in BOOLEAN : stored(c, err)

SpecStages == InitStages /\ [][NextStages]_vars

\* A build whose reduce runs over the parsed tree: reduce is called by
\* build (line 1284) and calls reduced back with its result.
InitCompile ==
  /\ InitEngine
  /\ InitForEachVars
  /\ manifest \in {[exists |-> e, bundles |-> <<>>] : e \in BOOLEAN}
  /\ package = EmptyPackage
  /\ parseRet = "none"
  /\ preprocess = [e \in {"styl"} |-> <<"css">>]
  /\ InitDirectiveVars
  /\ InitReduceVars
  /\ InitRestVars

NextCompile ==
  \/ \E d \in Decls({0}, SourceExts, {<<>>}) : d.exists /\ declare(d)
  \/ on
  \/ parse
  \/ \E fn \in BOOLEAN : build(1, fn)
  \/ bPc[1] = "reduce" /\ \E exts \in {{"js"}, {"css"}, {"js", "css"}} : reduce(exts)
  \/ reduceBundle
  \/ \E err \in BOOLEAN : compiling(err)
  \/ rPc = "done" /\ reduced(1, rResult.err, collections(rResult.result))
  \/ \E err \in BOOLEAN : writer(1, err)
  \/ \E err \in BOOLEAN : written(1, err)

SpecCompile == InitCompile /\ [][NextCompile]_vars

\* ------------------------------------------------------------------------
\* Properties of forEach
\* ------------------------------------------------------------------------
\* The marks of the layers 1..k that satisfy Test, in registration order.
MarksUpTo(k, Test(_)) ==
  SelectSeq([i \in 1..k |-> i], Test)

\* The content after the replacing layers among 1..k ran in order.
ContentAfter(k) ==
  LET Repl(i) == Replaces(middleware[i])
  IN InputContent \o MarksUpTo(k, Repl)

\* The first layer that fails (throws or passes an error), 0 if none does.
FirstFailing ==
  LET F == { i \in 1..Len(middleware) :
               middleware[i].kind \in {"error", "throw", "late"} }
  IN IF F = {} THEN 0 ELSE CHOOSE i \in F : \A j \in F : i <= j

\* C1: a layer that yields no replacement is transparent.  At every moment
\* the working collection is the input content followed by the marks of
\* exactly the replacing layers that called their continuation, in order,
\* and a successful completion hands cb the input followed by the marks of
\* all replacing layers (<<0, 1, 3>> for [replace, noop, replace]).
C1_NoopTransparent ==
  LET Done(i) == Replaces(middleware[i]) /\ continued[i] > 0
  IN /\ collection = Coll(InputContent \o MarksUpTo(Len(middleware), Done))
     /\ \A n \in 1..Len(cbLog) :
          cbLog[n].err = NoErr =>
            cbLog[n].collection = Coll(ContentAfter(Len(middleware)))

\* A run of [replace, noop, replace] called back with the content <<0, 1, 3>>.
C1_Witness ==
  /\ Len(middleware) = 3
  /\ middleware[1].kind = "replace"
  /\ middleware[2].kind = "noop"
  /\ middleware[3].kind = "replace"
  /\ cbLog = << [err |-> NoErr, collection |-> Coll(<<0, 1, 3>>)] >>

C3_StrictlySequential ==
  /\ \A i \in 1..Len(middleware) :
       /\ invoked[i] <= 1
       /\ continued[i] <= invoked[i]
       /\ (i > 1 /\ invoked[i] > 0) => continued[i - 1] > 0
  /\ Cardinality(fePending) <= 1
  /\ \A i \in fePending : \A j \in (i + 1)..Len(middleware) : invoked[j] = 0

\* The second layer was invoked after an asynchronous first layer completed,
\* and is itself pending.
C3_Witness ==
  /\ Len(middleware) = 3
  /\ middleware[1].async
  /\ continued[1] = 1
  /\ fePending = {2}
  /\ invoked[3] = 0

\* ------------------------------------------------------------------------
\* Properties of parse
\* ------------------------------------------------------------------------
\* The keys of the bundles of a tree, in tree order.
Keys(tree) == [i \in 1..Len(tree) |-> tree[i].key]

\* Some bundle file of the parsed manifest does not exist.
BundleMissing ==
  \E i \in 1..Len(manifest.bundles) : ~manifest.bundles[i].exists

\* C4: when a bundle file of the manifest does not exist, parse does not
\* return true and the engine's package holds no tree, files or extensions
\* index built from the other bundles.
C4_MissingBundleFailsParse ==
  (parseRet /= "none" /\ manifest.exists /\ BundleMissing) =>
    /\ parseRet /= "true"
    /\ ~package.meta
    /\ package.tree = <<>>
    /\ package.files = <<>>
    /\ \A e \in OutputExts : package.extensions[e] = <<>>

\* C8: when no bundle of the manifest has an explicit weight, the tree of a
\* successful parse lists the bundles in declaration order, and all of them
\* when all their files exist.
C8_DeclarationOrder ==
  (/\ parseRet = "true"
   /\ \A i \in 1..Len(manifest.bundles) : manifest.bundles[i].weight = 0) =>
    /\ Keys(package.tree) = [i \in 1..Len(package.tree) |-> i]
    /\ ~BundleMissing => Len(package.tree) = Len(manifest.bundles)

\* MaxBundles bundles without weights were parsed into a tree.
C8_Witness ==
  /\ parseRet = "true"
  /\ Len(manifest.bundles) = MaxBundles
  /\ \A i \in 1..Len(manifest.bundles) :
       manifest.bundles[i].weight = 0 /\ manifest.bundles[i].exists
  /\ Len(package.tree) = MaxBundles

\* C9: after a successful parse the tree holds each parsed bundle once, is
\* sorted by descending weight, and bundles of equal weight are in manifest
\* iteration order.
C9_TreeSorted ==
  parseRet = "true" =>
    /\ Len(package.tree) = Len(package.files)
    /\ { package.tree[i].key : i \in 1..Len(package.tree) }
         = { package.files[i] : i \in 1..Len(package.files) }
    /\ \A i \in 1..(Len(package.tree) - 1) :
         /\ package.tree[i].weight >= package.tree[i + 1].weight
         /\ package.tree[i].weight = package.tree[i + 1].weight
              => package.tree[i].key < package.tree[i + 1].key

\* A parse that had to move a bundle forward and that kept two bundles of
\* equal weight in manifest order.
C9_Witness ==
  /\ parseRet = "true"
  /\ Len(package.tree) = 3
  /\ package.tree[1].key = 3
  /\ package.tree[2].key = 1
  /\ package.tree[3].key = 2
  /\ package.tree[2].weight = package.tree[3].weight

\* ------------------------------------------------------------------------
\* Properties of directive
\* ------------------------------------------------------------------------
\* C5: on a two-file cycle (a includes b, b includes a) directive() called
\* for the content of a never nests deeper than the number of distinct
\* files below the top-level call, and it does not return resolved text:
\* the call ends in a failure.
C5_TwoFileCycleFails ==
  (fs["a"] = <<"b">> /\ fs["b"] = <<"a">> /\ dFile = "a" /\ dPc /= "idle") =>
    /\ Len(dStack) - 1 <= 2
    /\ dPc /= "done"

\* C6: a target is reported as a recursive import only when it is on the
\* active chain of includes of the call.
C6_CycleOnlyOnActiveChain ==
  \A n \in 1..Len(dCycles) :
    \E i \in 1..Len(dCycles[n].chain) : dCycles[n].chain[i] = dCycles[n].target

\* C7: a directive failure (a missing target or a cycle) is not swallowed:
\* once critical() was called for an include, directive() does not return
\* text to preprocess, which would hand it on to reduce, the pipeline and
\* the storages; and no returned text holds a placeholder for an include.
C7_DirectiveFailureSurfaces ==
  dPc = "done" =>
    /\ errors = <<>>
    /\ \A i \in 1..Len(dOut) : dOut[i] /= "false"

\* ------------------------------------------------------------------------
\* Properties of reduce
\* ------------------------------------------------------------------------
\* The keys of the bundles in a text: the characters that stand for the
\* body of a bundle file.
Markers(text) ==
  LET IsKey(c) == \E k \in 1..(MaxBundles + 1) : c = ToString(k)
  IN SelectSeq(text, IsKey)

\* The keys of the bundles among the first n of the tree that satisfy Test,
\* in tree order.
TreeKeys(n, Test(_)) ==
  LET keys == SelectSeq(SubSeq(package.tree, 1, n), Test)
  IN [i \in 1..Len(keys) |-> keys[i].key]

\* C10: reduce hands the bundles whose output extension was requested to
\* preprocess in tree order, one at a time: a bundle is started only when
\* the fragment of the one before it has been appended.  The result holds,
\* for each requested output extension, the fragments of exactly the tree's
\* bundles with that output, in tree order, each once.
C10_ConcatInTreeOrder ==
  LET Wanted(b) == b.output \in rExtensions
      reached == IF rPc = "next" THEN rIndex - 1 ELSE rIndex
  IN /\ rPc \in {"next", "compiling", "done"} =>
          /\ rStarted = TreeKeys(IF package.tree = <<>> THEN 0 ELSE reached, Wanted)
          /\ Len(rAppended) <= Len(rStarted)
          /\ Len(rStarted) <= Len(rAppended) + 1
          /\ rAppended = SubSeq(rStarted, 1, Len(rAppended))
          /\ rPc = "next" => rAppended = rStarted
     /\ (rPc = "done" /\ ~rResult.err) =>
          \A e \in OutputExts :
            LET Out(b) == b.output = e
                keys == TreeKeys(Len(package.tree), Out)
            IN IF e \in rExtensions /\ keys /= <<>>
                 THEN /\ rResult.result[e].has
                      /\ Markers(rResult.result[e].text)
                           = [i \in 1..Len(keys) |-> ToString(keys[i])]
                 ELSE ~rResult.result[e].has

\* A reduce that joined an asynchronously compiled bundle and a plain one
\* into the css output, in a tree order that is not the declaration order.
C10_Witness ==
  /\ rPc = "done"
  /\ ~rResult.err
  /\ Len(package.tree) = 3
  /\ package.tree[2].key = 3
  /\ package.tree[2].output = "css"
  /\ package.tree[3].compiler
  /\ package.tree[3].output = "css"
  /\ Markers(rResult.result["css"].text) = <<"3", "2">>
  /\ rResult.result["js"].has

\* ------------------------------------------------------------------------
\* Properties of the details handed to preprocess
\* ------------------------------------------------------------------------
\* The position in the tree of the bundle with this key.
TreePos(key) == CHOOSE i \in 1..Len(package.tree) : package.tree[i].key = key

\* The positions of the tree whose bundle has the source extension of the
\* bundle at position i.
SameSource(i) ==
  { j \in 1..Len(package.tree) :
      package.tree[j].extension = package.tree[i].extension }

\* C11: for every bundle that reduce handed to preprocess, details.count is
\* the number of bundles with the bundle's source extension, details.index
\* is the number of such bundles in front of it in the tree (requested or
\* not), so 0 <= index < count, and no two bundles of one source extension
\* were given the same index.
C11_DetailsIndexCount ==
  rPc /= "idle" =>
    /\ \A n \in 1..Len(details) :
         LET i == TreePos(details[n].key)
         IN /\ details[n].count = Cardinality(SameSource(i))
            /\ details[n].index = Cardinality({ j \in SameSource(i) : j < i })
            /\ 0 <= details[n].index
            /\ details[n].index < details[n].count
    /\ \A n1, n2 \in 1..Len(details) :
         (/\ n1 /= n2
          /\ TreePos(details[n1].key) \in SameSource(TreePos(details[n2].key)))
           => details[n1].index /= details[n2].index

\* A bundle was handed to preprocess with index 1 after a bundle of its
\* source extension, in front of it in the tree, was skipped because its
\* output extension was not requested.
C11_Witness ==
  /\ rPc = "done"
  /\ \E n \in 1..Len(details) :
       /\ details[n].index = 1
       /\ \E j \in SameSource(TreePos(details[n].key)) :
            /\ j < TreePos(details[n].key)
            /\ \A k \in 1..Len(rStarted) : rStarted[k] /= package.tree[j].key

\* ------------------------------------------------------------------------
\* Properties of the statement terminators
\* ------------------------------------------------------------------------
\* A fragment followed by a statement terminator unless it ends with one.
Terminated(fragment) ==
  IF fragment /= <<>> /\ fragment[Len(fragment)] = ";"
    THEN fragment
    ELSE fragment \o <<";">>

\* The fragments of the js bundles among the first n of the tree, each
\* terminated, joined by newlines.
RECURSIVE JoinTerminated(_)
JoinTerminated(n) ==
  IF n = 0 THEN <<>>
  ELSE LET bundle == package.tree[n]
           before == JoinTerminated(n - 1)
       IN IF bundle.output /= "js" THEN before
          ELSE IF before = <<>> THEN Terminated(preprocessed(bundle))
          ELSE before \o <<"\n">> \o Terminated(preprocessed(bundle))

\* C12: when reduce succeeded for the js output, the content of the js
\* collection that enters the pipeline is the fragments of the js bundles
\* in tree order, each followed by a statement terminator it did not
\* already end with, joined by newlines ("1" then "2" gives "1;\n2;").
C12_TerminatorAtEveryJoin ==
  (/\ rPc = "done"
   /\ ~rResult.err
   /\ "js" \in rExtensions
   /\ rResult.result["js"].has) =>
     collectionContent("js", rResult.result["js"].text)
       = JoinTerminated(Len(package.tree))

\* ------------------------------------------------------------------------
\* Properties of the line scan of directive
\* ------------------------------------------------------------------------
\* C13: for an extension other than js no line is repaired: every line
\* that scan has assembled is the line of the input (for a directive line,
\* the text that replaced it), and the text returned is the trimmed join of
\* these lines.
C13_RepairOnlyForScripts ==
  dExtension /= "js" =>
    /\ \A i \in 1..Len(assemble) : assemble[i] = lines[i].text
    /\ sPc = "done" =>
         dText = trim(JoinLines([i \in 1..Len(lines) |-> lines[i].text]))

\* A style sheet was scanned in which an include follows a line that a
\* script would have had repaired.
C13_Witness ==
  /\ sPc = "done"
  /\ dExtension = "css"
  /\ \E i \in 2..Len(lines) :
       /\ lines[i].directive
       /\ ~lines[i - 1].directive
       /\ repairsAnyExtension(dExtension, prev(i, assemble), lines[i].text)
       /\ prev(i, assemble).index = i - 1
       /\ assemble[i - 1] = lines[i - 1].text

\* ------------------------------------------------------------------------
\* Properties of template
\* ------------------------------------------------------------------------
\* The value at a dotted path of the data, undefined when the path does not
\* resolve.
ValueAt(d, prop) ==
  IF Len(prop) = 1 THEN d[prop[1]] ELSE property(d[prop[1]], prop[2])

\* The template with every placeholder replaced by the value at its path,
\* or by the empty string.
RECURSIVE Filled(_, _)
Filled(t, d) ==
  IF t = <<>> THEN <<>>
  ELSE (IF Head(t).tag THEN replacement(ValueAt(d, Head(t).prop)) ELSE <<"h">>)
         \o Filled(Tail(t), d)

\* C14: template is total: it returns, never throws, and the string
\* returned is the template with each placeholder replaced by the value at
\* its path or by the empty string when the path does not resolve, also
\* when the first segment of a dotted path is missing.
C14_TemplateTotal ==
  tPc = "done" =>
    /\ ~tOut.threw
    /\ tOut.text = Filled(str, data)

\* ------------------------------------------------------------------------
\* Properties of write
\* ------------------------------------------------------------------------
\* C15: write's callback is called only when every storage has settled,
\* and without error only when every registered storage succeeded.
C15_WriteAwaitsAllStorages ==
  \A k \in 1..Len(wLog) :
    /\ wLog[k].inflight = {}
    /\ ~wLog[k].err => \A i \in StorageIds : wStorage[i] \in {"idle", "stored"}

Executions(b, key) ==
  { k \in 1..Len(tagLog) :
      tagLog[k].build = b /\ tagLog[k].key = key /\ ~tagLog[k].hit }

\* No lookup found a value that a build memoized which was done before the
\* build of the lookup began.
NoReuse ==
  \A k \in 1..Len(tagLog) :
    tagLog[k].hit => tagLog[k].owner \notin bDoneBefore[tagLog[k].build]

C18_VcsOncePerBuild ==
  \A b \in Builds : \A key \in CacheKeys : Cardinality(Executions(b, key)) <= 1

\* A build made four tag() calls, of which the first executed the VCS and
\* the others found the memoized values, after another build was done.
C18_Witness ==
  \E b \in Builds :
    /\ bDoneBefore[b] /= {}
    /\ Cardinality({ k \in 1..Len(tagLog) : tagLog[k].build = b }) = 8
    /\ Cardinality(Executions(b, "git branch")) = 1
    /\ Cardinality(Executions(b, "git show")) = 1

\* C19: while a build is running the cache runs: done() of one build does
\* not stop the cache under a build that began and is not done.
C19_BuildsShareNoCache ==
  running(bPc) /= {} => cache.running

\* ------------------------------------------------------------------------
\* Properties of the parse-only mode
\* ------------------------------------------------------------------------
\* C20: after parse(source, true) the package of the engine is the one it
\* had when the call was made, and the call returned the parsed structure
\* of a source that exists.
C20_ParseOnlyKeepsPackage ==
  poRet /= "none" =>
    /\ package = poBefore
    /\ poRet \in {"struct", "false"}

\* ------------------------------------------------------------------------
\* Properties of the parse of a bundle list
\* ------------------------------------------------------------------------
\* C21: parsing a manifest whose bundle is a list of N >= 1 paths succeeds
\* and leaves a bundle map whose keys are exactly the paths of the list,
\* each with a weight.
C21_ListBecomesBundleMap ==
  (lRet /= "none" /\ Len(lFiles) >= 1) =>
    /\ lRet = "true"
    /\ lBundle.def
    /\ \A f \in ListFiles :
         (lBundle.map[f] /= 0) <=> (\E i \in 1..Len(lFiles) : lFiles[i] = f)

\* ------------------------------------------------------------------------
\* Properties of the output extension
\* ------------------------------------------------------------------------
\* The extensions that the compilers declare when they are loaded.
Declared == [e \in {"styl"} |-> <<"css">>]

\* C22: every bundle with a compiler (and no override) that a successful
\* parse put into the tree has the first extension that its compiler
\* declares as output extension, whatever the number of bundles that were
\* given to createMeta before it.
C22_OutputIsFirstDeclared ==
  parseRet = "true" =>
    \A i \in 1..Len(package.tree) :
      package.tree[i].compiler =>
        package.tree[i].output = Head(Declared[package.tree[i].extension])

\* ------------------------------------------------------------------------
\* Properties of a compiler error
\* ------------------------------------------------------------------------
\* reduce has ended with a bundle that was handed to preprocess and whose
\* fragment was never appended: its compiler reported an error.
CompilerFailed == rPc = "done" /\ Len(rAppended) < Len(rStarted)

\* C23: when the compiler of a bundle reported an error, reduce handed an
\* error to its caller, the failing bundle is the last one that was handed
\* to preprocess, and the build ran no pipeline and no write: it is still
\* waiting for reduce or is done with the error, and tag() was not called.
C23_CompilerErrorAborts ==
  CompilerFailed =>
    /\ rResult.err
    /\ rStarted[Len(rStarted)] = package.tree[rIndex].key
    /\ Len(rAppended) = Len(rStarted) - 1
    /\ bPc[1] \in {"reduce", "done"}
    /\ bPc[1] = "done" => bResult[1] = "err"
    /\ tagLog = <<>>

\* The compiler of a bundle failed while a requested bundle was behind it
\* in the tree and a fragment had been appended before, and the build is
\* done with the error.
C23_Witness ==
  /\ CompilerFailed
  /\ rIndex < Len(package.tree)
  /\ isRequested(package.tree[rIndex + 1])
  /\ rAppended /= <<>>
  /\ bPc[1] = "done"
  /\ bResult[1] = "err"

\* ------------------------------------------------------------------------
\* Properties of critical, use and plugin
\* ------------------------------------------------------------------------
\* The step is a call of the operation op.
Called(op) == nCalls' = nCalls + 1 /\ apiCall'.op = op

\* C24: in library mode with an 'error' listener registered, read() of a
\* manifest that does not exist hands the failure to critical(), does not
\* end the process and returns false; no step ends the process unless cli
\* is true.
C24_LibraryReadReturnsFalse ==
  [][/\ (Called("read") /\ ~manifest.exists /\ ~cli /\ listener) =>
          /\ apiRet' = "false"
          /\ errors' /= errors
          /\ ~exited'
     /\ (exited' /\ ~exited) => cli]_vars

\* A read of a manifest that does not exist returned false to a library
\* caller that listens for 'error'.
C24_Witness ==
  /\ apiCall.op = "read"
  /\ ~manifest.exists
  /\ ~cli
  /\ listener
  /\ apiRet = "false"
  /\ errors /= <<>>
  /\ ~exited

\* C24 as stated: in library mode, whether or not an 'error' listener is
\* registered, read() of a manifest that does not exist returns false.
C24_LibraryAlwaysReturnsFalse ==
  [][(Called("read") /\ ~manifest.exists /\ ~cli) =>
        (apiRet' = "false" /\ ~exited')]_vars

\* The layer is one of the list: a layer of equal name and body.
Registered(list, layer) == \E i \in 1..Len(list) : list[i] = layer

\* The functions of a log of arguments, each at its first occurrence.
RECURSIVE FirstRegistrations(_)
FirstRegistrations(log) ==
  IF log = <<>> THEN <<>>
  ELSE LET front == FirstRegistrations(SubSeq(log, 1, Len(log) - 1))
           last == log[Len(log)]
       IN IF isFunction(last) /\ ~Registered(front, last)
            THEN Append(front, last)
            ELSE front

\* C25: use(layer) returns false and leaves the middleware list as it is
\* when layer is no function or a layer of equal name and body is
\* registered, and else appends layer and returns true; the list never
\* holds two layers of equal name and body, and holds the layers in the
\* order of their first registration.
C25_UseRegistersOnce ==
  /\ [][Called("use") =>
          LET layer == apiCall'.arg
          IN IF ~isFunction(layer) \/ Registered(middleware, layer)
               THEN apiRet' = "false" /\ middleware' = middleware
               ELSE apiRet' = "true" /\ middleware' = Append(middleware, layer)]_vars
  /\ [](/\ \A i, j \in 1..Len(middleware) : middleware[i] = middleware[j] => i = j
        /\ middleware = FirstRegistrations(useLog))

\* use() refused a function of which an equal one was registered, while a
\* layer of the same name and another body is registered too.
C25_Witness ==
  /\ apiCall.op = "use"
  /\ isFunction(apiCall.arg)
  /\ apiRet = "false"
  /\ Len(middleware) = 2
  /\ middleware[1].name = middleware[2].name

\* The first directory of the search path that holds the plugin.
FirstDir(name) ==
  LET i == CHOOSE k \in 1..Len(paths) :
             /\ name \in Modules[paths[k]]
             /\ \A j \in 1..(k - 1) : name \notin Modules[paths[j]]
  IN paths[i]
Found(name) == \E k \in 1..Len(paths) : name \in Modules[paths[k]]

\* C26: plugin(name) initialises the module of the first directory of the
\* search path that holds it, once, has its layer registered and returns
\* true; when no directory holds it, critical() is called, the middleware
\* list is left as it is, no plugin is initialised, and false is returned
\* to a library caller that listens for 'error'.
C26_PluginFoundInOrder ==
  [][Called("plugin") =>
       LET name == apiCall'.arg
       IN IF Found(name)
            THEN LET layer == pluginLayer(FirstDir(name), name)
                 IN /\ apiRet' = "true"
                    /\ inits' = Append(inits, <<FirstDir(name), name>>)
                    /\ Registered(middleware', layer)
                    /\ middleware' \in {middleware, Append(middleware, layer)}
                    /\ errors' = errors
            ELSE /\ errors' /= errors
                 /\ middleware' = middleware
                 /\ inits' = inits
                 /\ (~cli /\ listener) => apiRet' = "false"]_vars

\* plugin() has found in the second directory of the search path a plugin
\* that the first one does not hold, and has returned false for another
\* one that no directory holds.
C26_Witness ==
  /\ apiCall.op = "plugin"
  /\ apiRet = "false"
  /\ Len(paths) = 2
  /\ inits = << <<paths[2], "g">> >>
  /\ Len(middleware) = 1

\* C26 as stated: plugin(name) returns false whenever no directory of the
\* search path holds the plugin.
C26_PluginMissingReturnsFalse ==
  [][(Called("plugin") /\ ~Found(apiCall'.arg)) => apiRet' = "false"]_vars

\* ------------------------------------------------------------------------
\* Properties of forEach's completion callback
\* ------------------------------------------------------------------------
\* C27: a call of forEach never invokes its completion callback more than
\* once, whatever the layers are, also when a layer throws after it has
\* called its continuation.
C27_CallbackAtMostOnce == Len(cbLog) <= 1

\* ------------------------------------------------------------------------
\* Properties of the stages of a build
\* ------------------------------------------------------------------------
\* C28: when a collection was handed to write, the pipeline of every
\* collection has called back and none of them has handed over an error.
C28_WriteAfterAllPipelines ==
  gHanded /= {} => (pPending = {} /\ pFailed = {})

\* The places of the events of one kind.
Places(what) == { i \in 1..Len(gEvents) : gEvents[i].what = what }

\* C29: the 'build' event is emitted only without an error, and the
\* callback of a build is invoked at most once, never after the event, and
\* once when the event was emitted.
C29_BuildEventOnlyOnSuccess ==
  /\ \A i \in Places("build") : ~gEvents[i].err
  /\ Cardinality(Places("callback")) <= 1
  /\ \A i \in Places("callback") : \A j \in Places("build") : i < j
  /\ (gFn /\ Places("build") /= {}) => Places("callback") /= {}

====
